---- MODULE Spec2Model ----
(***************************************************************************)
(* Verification model of the finance_track_webapp backend: the transaction *)
(* store, the PositionValue store, the cost-basis calculator, the holdings *)
(* classifier, the portfolio summary and the transaction mutations with    *)
(* their position-value cleanup; the OtherAsset store, the exchange-rate   *)
(* setting, the AssetSnapshot store with its capture, deletion, summaries  *)
(* and CSV import, and the DEGIRO CSV import of transactions.              *)
(*                                                                         *)
(* Conventions                                                             *)
(*  - Decimal amounts are integers (a fixed number of minor units).        *)
(*  - Optional[T] is a sequence of length <= 1: None is << >> and a        *)
(*    present value v is <<v>>.                                            *)
(*  - A Decimal quotient is an exact fraction [num, den] in lowest terms   *)
(*    with den > 0 (the 28-digit Decimal context is taken as exact).       *)
(*  - The broker and the created_at/updated_at columns are read by none of *)
(*    the modelled computations and are left out of the rows.              *)
(***************************************************************************)
EXTENDS Integers, Sequences, FiniteSets, TLC

VARIABLES transactions, position_values, last,
          other_assets, user_settings, asset_snapshots, reply

vars == <<transactions, position_values, last,
          other_assets, user_settings, asset_snapshots, reply>>

\* The tables of the portfolio and the tables of the assets
portfolio_vars == <<transactions, position_values, last>>
asset_vars == <<other_assets, user_settings, asset_snapshots, reply>>

(***************************************************************************)
(* Bounds of the model                                                     *)
(***************************************************************************)
MaxTxns == 2
\* The snapshots held at one time
MaxSnapshots == 2
\* The largest primary key at which a further snapshot is still taken
MaxSnapshotId == 3
\* The rows of a snapshot table given to the summaries
MaxSnapshotRows == 3
\* The data rows of a CSV file
MaxCsvRows == 2

None == << >>

Some(v) == <<v>>

(* Sample input values.  A transaction request takes its units, price, fee *)
(* and date from one of the profiles, so that units, price, price * units  *)
(* and fee are told apart by their values.                                 *)
Isins == {"IE00B4L5Y983", "US0378331005"}
RawIsins == Isins \cup {"ie00b4l5y983"}
TransactionTypes == {"BUY", "SELL"}
Profiles ==
    {[units |-> 1, price_per_unit |-> 2, fee |-> 0, date |-> 1],
     [units |-> 2, price_per_unit |-> 2, fee |-> 0, date |-> 1],
     [units |-> 1, price_per_unit |-> 5, fee |-> 1, date |-> 2],
     [units |-> 2, price_per_unit |-> 3, fee |-> 1, date |-> 2]}
\* The profiles that differ in the units only
UnitProfiles == {p \in Profiles : p.date = 1}
Dates == {p.date : p \in Profiles}
Values == {5, 7}
\* The cut-off dates of a query: none, or the earlier date (a cut-off at the
\* latest date removes nothing)
Cutoffs == {None, <<1>>}
\* The PositionValue rows a query may find stored
StoredValues ==
    {[isin |-> "IE00B4L5Y983", current_value |-> 5],
     [isin |-> "US0378331005", current_value |-> 7]}

(***************************************************************************)
(* Helpers                                                                 *)
(***************************************************************************)
\* str.upper() on the codes of the model
Upper(s) ==
    IF s = "ie00b4l5y983" THEN "IE00B4L5Y983"
    ELSE IF s = "eur" THEN "EUR"
    ELSE s

Abs(n) == IF n < 0 THEN -n ELSE n

RECURSIVE Gcd(_, _)
Gcd(a, b) == IF b = 0 THEN a ELSE Gcd(b, a % b)

\* Decimal division a / b (b # 0) as a fraction in lowest terms
DecimalDiv(a, b) ==
    LET g == Gcd(Abs(a), Abs(b))
        s == IF b < 0 THEN -1 ELSE 1
    IN  [num |-> (s * a) \div g, den |-> Abs(b) \div g]

\* Decimal product of a fraction and an integer
DecimalMul(q, k) ==
    LET g == Gcd(Abs(q.num * k), q.den)
    IN  [num |-> (q.num * k) \div g, den |-> q.den \div g]

DecimalZero == [num |-> 0, den |-> 1]

RECURSIVE Sum(_)
\* sum(...) of Python over a list of numbers
Sum(s) == IF s = << >> THEN 0 ELSE Head(s) + Sum(Tail(s))

RECURSIVE QueryAll(_)
\* query.all() without an ORDER BY: the rows in primary-key order
QueryAll(rows) ==
    IF rows = {} THEN << >>
    ELSE LET first == CHOOSE r \in rows : \A o \in rows : r.id <= o.id
         IN  <<first>> \o QueryAll(rows \ {first})

(***************************************************************************)
(* cost_basis_service.calculate_cost_basis                                 *)
(***************************************************************************)
RECURSIVE OrderByDateAsc(_)
\* query.order_by(Transaction.date.asc()).all(); rows of one date in id order
OrderByDateAsc(rows) ==
    IF rows = {} THEN << >>
    ELSE LET first == CHOOSE r \in rows :
                        \A o \in rows :
                            \/ r.date < o.date
                            \/ (r.date = o.date /\ r.id <= o.id)
         IN  <<first>> \o OrderByDateAsc(rows \ {first})

\* CostBasisStep with the fee of a SELL left out of total_fees
CostBasisStep_SellFeeDropped(acc, txn) ==
    IF txn.transaction_type = "BUY"
    THEN [acc EXCEPT
            !.sum_costs_without_fees = @ + txn.price_per_unit * txn.units,
            !.total_fees = @ + txn.fee,
            !.total_units = @ + txn.units,
            !.transaction_count = @ + 1]
    ELSE [acc EXCEPT
            !.sum_gains_without_fees = @ + txn.price_per_unit * txn.units,
            !.total_units = @ - txn.units,
            !.transaction_count = @ + 1]

\* CostBasisStep with the units of a SELL clamped at zero
CostBasisStep_ClampAtZero(acc, txn) ==
    IF txn.transaction_type = "BUY"
    THEN [acc EXCEPT
            !.sum_costs_without_fees = @ + txn.price_per_unit * txn.units,
            !.total_fees = @ + txn.fee,
            !.total_units = @ + txn.units,
            !.transaction_count = @ + 1]
    ELSE [acc EXCEPT
            !.sum_gains_without_fees = @ + txn.price_per_unit * txn.units,
            !.total_fees = @ + txn.fee,
            !.total_units = IF @ - txn.units < 0 THEN 0 ELSE @ - txn.units,
            !.transaction_count = @ + 1]

\* One iteration of the loop over the transactions
CostBasisStep(acc, txn) ==
    IF txn.transaction_type = "BUY"
    THEN [acc EXCEPT
            !.sum_costs_without_fees = @ + txn.price_per_unit * txn.units,
            !.total_fees = @ + txn.fee,
            !.total_units = @ + txn.units,
            !.transaction_count = @ + 1]
    ELSE IF txn.transaction_type = "SELL"
    THEN [acc EXCEPT
            !.sum_gains_without_fees = @ + txn.price_per_unit * txn.units,
            !.total_fees = @ + txn.fee,
            !.total_units = @ - txn.units,
            !.transaction_count = @ + 1]
    ELSE acc

RECURSIVE CostBasisLoop(_, _)
CostBasisLoop(acc, txns) ==
    IF txns = << >> THEN acc
    ELSE CostBasisLoop(CostBasisStep(acc, Head(txns)), Tail(txns))

\* NoTransactions that never holds: the early return is skipped
NoTransactions_Never(txns) == FALSE

\* "if not transactions": the early return of None
NoTransactions(txns) == txns = << >>

\* calculate_cost_basis whose cutoff leaves the transactions of its own
\* date out
calculate_cost_basis_BeforeCutoff(db, isin, as_of_date) ==
    LET rows == {t \in db : /\ t.isin = Upper(isin)
                            /\ (as_of_date # None => t.date < as_of_date[1])}
        txns == OrderByDateAsc(rows)
        acc  == CostBasisLoop([total_units |-> 0,
                               sum_costs_without_fees |-> 0,
                               sum_gains_without_fees |-> 0,
                               total_fees |-> 0,
                               transaction_count |-> 0], txns)
    IN  IF NoTransactions(txns) THEN None
        ELSE Some([isin |-> Upper(isin),
                   total_units |-> acc.total_units,
                   total_cost_without_fees |-> acc.sum_costs_without_fees,
                   total_gains_without_fees |-> acc.sum_gains_without_fees,
                   total_fees |-> acc.total_fees,
                   transactions_count |-> acc.transaction_count,
                   current_value |-> None,
                   absolute_pl_without_fees |-> None,
                   percentage_pl_without_fees |-> None,
                   absolute_pl_with_fees |-> None,
                   percentage_pl_with_fees |-> None])

\* as_of_date is an Optional date
calculate_cost_basis(db, isin, as_of_date) ==
    LET rows == {t \in db : /\ t.isin = Upper(isin)
                            /\ (as_of_date # None => t.date <= as_of_date[1])}
        txns == OrderByDateAsc(rows)
        acc  == CostBasisLoop([total_units |-> 0,
                               sum_costs_without_fees |-> 0,
                               sum_gains_without_fees |-> 0,
                               total_fees |-> 0,
                               transaction_count |-> 0], txns)
    IN  IF NoTransactions(txns) THEN None
        ELSE Some([isin |-> Upper(isin),
                   total_units |-> acc.total_units,
                   total_cost_without_fees |-> acc.sum_costs_without_fees,
                   total_gains_without_fees |-> acc.sum_gains_without_fees,
                   total_fees |-> acc.total_fees,
                   transactions_count |-> acc.transaction_count,
                   current_value |-> None,
                   absolute_pl_without_fees |-> None,
                   percentage_pl_without_fees |-> None,
                   absolute_pl_with_fees |-> None,
                   percentage_pl_with_fees |-> None])

(***************************************************************************)
(* position_value_service                                                  *)
(***************************************************************************)
\* get_position_value: the row of the upper-cased code, or None where the
\* code raises PositionValueNotFoundError
get_position_value(pvs, isin) ==
    LET found == {pv \in pvs : pv.isin = Upper(isin)}
    IN  IF found = {} THEN None ELSE Some(CHOOSE pv \in found : TRUE)

RECURSIVE get_all_position_values(_)
\* get_all_position_values: the rows as a list. The code orders it by isin;
\* strings have no order here, so the list is in a fixed arbitrary order, and
\* only sums and lookups are taken of it
get_all_position_values(pvs) ==
    IF pvs = {} THEN << >>
    ELSE LET first == CHOOSE pv \in pvs : TRUE
         IN  <<first>> \o get_all_position_values(pvs \ {first})

\* delete_position_value: raised = TRUE stands for PositionValueNotFoundError
delete_position_value(pvs, isin) ==
    LET position_value == get_position_value(pvs, isin)
    IN  IF position_value = None
        THEN [raised |-> TRUE, position_values |-> pvs]
        ELSE [raised |-> FALSE, position_values |-> pvs \ {position_value[1]}]

\* upsert_position_value that keeps the code as it was typed
upsert_position_value_AsTyped(pvs, position_value_data) ==
    LET existing == {pv \in pvs : pv.isin = position_value_data.isin}
    IN  IF existing # {}
        THEN LET row == CHOOSE pv \in existing : TRUE
             IN  (pvs \ {row}) \cup
                 {[row EXCEPT !.current_value = position_value_data.current_value]}
        ELSE pvs \cup {[isin |-> position_value_data.isin,
                        current_value |-> position_value_data.current_value]}

\* upsert_position_value: the store after the call
upsert_position_value(pvs, position_value_data) ==
    LET isin_normalized == Upper(position_value_data.isin)
        existing == {pv \in pvs : pv.isin = isin_normalized}
    IN  IF existing # {}
        THEN LET row == CHOOSE pv \in existing : TRUE
             IN  (pvs \ {row}) \cup
                 {[row EXCEPT !.current_value = position_value_data.current_value]}
        ELSE pvs \cup {[isin |-> isin_normalized,
                        current_value |-> position_value_data.current_value]}

(***************************************************************************)
(* cost_basis_service.calculate_current_holdings_and_closed_positions      *)
(***************************************************************************)
\* db.query(Transaction.isin).distinct().all(): each code once, here in the
\* order of the first row that carries it
RECURSIVE DistinctIsins(_)
DistinctIsins(rows) ==
    IF rows = {} THEN << >>
    ELSE LET first == CHOOSE r \in rows : \A o \in rows : r.id <= o.id
         IN  <<first.isin>> \o DistinctIsins({r \in rows : r.isin # first.isin})

\* position_values_map.get(key)
MapGet(map, key) == IF key \in DOMAIN map THEN Some(map[key]) ELSE None

\* (absolute / denominator * 100) if denominator > 0 else 0
Percentage(absolute, denominator) ==
    IF denominator > 0
    THEN DecimalMul(DecimalDiv(absolute, denominator), 100)
    ELSE DecimalZero

\* HoldingProfitLoss against the gross cost: the gains are not netted
HoldingProfitLoss_GrossCost(cost_basis, current_value) ==
    LET total_cost_without_fees == cost_basis.total_cost_without_fees
        absolute_pl_without_fees == current_value - total_cost_without_fees
        total_cost_with_fees == total_cost_without_fees + cost_basis.total_fees
        absolute_pl_with_fees == current_value - total_cost_with_fees
    IN  [cost_basis EXCEPT
            !.current_value = Some(current_value),
            !.absolute_pl_without_fees = Some(absolute_pl_without_fees),
            !.percentage_pl_without_fees =
                Some(Percentage(absolute_pl_without_fees, total_cost_without_fees)),
            !.absolute_pl_with_fees = Some(absolute_pl_with_fees),
            !.percentage_pl_with_fees =
                Some(Percentage(absolute_pl_with_fees, total_cost_with_fees))]

\* An open position with a known value: the P/L against the net cost
HoldingProfitLoss(cost_basis, current_value) ==
    LET total_cost_without_fees ==
            cost_basis.total_cost_without_fees - cost_basis.total_gains_without_fees
        absolute_pl_without_fees == current_value - total_cost_without_fees
        total_cost_with_fees == total_cost_without_fees + cost_basis.total_fees
        absolute_pl_with_fees == current_value - total_cost_with_fees
    IN  [cost_basis EXCEPT
            !.current_value = Some(current_value),
            !.absolute_pl_without_fees = Some(absolute_pl_without_fees),
            !.percentage_pl_without_fees =
                Some(Percentage(absolute_pl_without_fees, total_cost_without_fees)),
            !.absolute_pl_with_fees = Some(absolute_pl_with_fees),
            !.percentage_pl_with_fees =
                Some(Percentage(absolute_pl_with_fees, total_cost_with_fees))]

\* A closed position: the realized P/L
ClosedProfitLoss(cost_basis) ==
    LET absolute_pl_without_fees ==
            cost_basis.total_gains_without_fees - cost_basis.total_cost_without_fees
        absolute_pl_with_fees == absolute_pl_without_fees - cost_basis.total_fees
        total_cost_with_fees ==
            cost_basis.total_cost_without_fees + cost_basis.total_fees
    IN  [cost_basis EXCEPT
            !.current_value = Some(0),
            !.absolute_pl_without_fees = Some(absolute_pl_without_fees),
            !.percentage_pl_without_fees =
                Some(Percentage(absolute_pl_without_fees,
                                cost_basis.total_cost_without_fees)),
            !.absolute_pl_with_fees = Some(absolute_pl_with_fees),
            !.percentage_pl_with_fees =
                Some(Percentage(absolute_pl_with_fees, total_cost_with_fees))]

\* AttachProfitLoss whose first branch forgets "and total_units > 0"
AttachProfitLoss_AnyKnownValue(cost_basis, current_value) ==
    IF current_value # None
    THEN HoldingProfitLoss(cost_basis, current_value[1])
    ELSE IF cost_basis.total_units = 0
    THEN ClosedProfitLoss(cost_basis)
    ELSE cost_basis

\* The if / elif of the loop body: the cost basis with its P/L fields
AttachProfitLoss(cost_basis, current_value) ==
    IF current_value # None /\ cost_basis.total_units > 0
    THEN HoldingProfitLoss(cost_basis, current_value[1])
    ELSE IF cost_basis.total_units = 0
    THEN ClosedProfitLoss(cost_basis)
    ELSE cost_basis

\* Categorize with a closed position taken for a holding (>= for >)
Categorize_ZeroIsHolding(acc, cb) ==
    IF cb.total_units >= 0
    THEN [acc EXCEPT !.holdings = Append(@, cb)]
    ELSE IF cb.total_units = 0
    THEN [acc EXCEPT !.closed_positions = Append(@, cb)]
    ELSE acc

\* Categorize as holding or closed position
Categorize(acc, cb) ==
    IF cb.total_units > 0
    THEN [acc EXCEPT !.holdings = Append(@, cb)]
    ELSE IF cb.total_units = 0
    THEN [acc EXCEPT !.closed_positions = Append(@, cb)]
    ELSE acc

RECURSIVE HoldingsLoop(_, _, _, _)
\* The loop over the codes; acc is the pair of lists built so far
HoldingsLoop(db, position_values_map, isins, acc) ==
    IF isins = << >> THEN acc
    ELSE LET isin == Head(isins)
             cost_basis == calculate_cost_basis(db, isin, None)
             next ==
                 IF cost_basis = None THEN acc
                 ELSE Categorize(acc, AttachProfitLoss(
                                          cost_basis[1],
                                          MapGet(position_values_map, Upper(isin))))
         IN  HoldingsLoop(db, position_values_map, Tail(isins), next)

calculate_current_holdings_and_closed_positions(db, position_values_map) ==
    HoldingsLoop(db, position_values_map, DistinctIsins(db),
                 [holdings |-> << >>, closed_positions |-> << >>])

(***************************************************************************)
(* cost_basis_service.get_portfolio_summary                                *)
(***************************************************************************)
\* {pv.isin.upper(): pv.current_value for pv in position_values}: a later
\* entry of the list replaces an earlier one of the same key
PositionValuesMap(position_values_list) ==
    [i \in {Upper(position_values_list[k].isin) : k \in DOMAIN position_values_list} |->
        LET k == CHOOSE j \in DOMAIN position_values_list :
                    /\ Upper(position_values_list[j].isin) = i
                    /\ \A m \in DOMAIN position_values_list :
                          Upper(position_values_list[m].isin) = i => m <= j
        IN  position_values_list[k].current_value]

\* TotalProfitLoss with the fees left out
TotalProfitLoss_FeesIgnored(current_value, total_withdrawn, total_fees, total_invested) ==
    current_value + total_withdrawn - total_invested

\* Calculate total profit/loss
TotalProfitLoss(current_value, total_withdrawn, total_fees, total_invested) ==
    current_value + total_withdrawn - total_fees - total_invested

get_portfolio_summary(db, pvs) ==
    LET position_values_rows == get_all_position_values(pvs)
        position_values_map == PositionValuesMap(position_values_rows)
        lists == calculate_current_holdings_and_closed_positions(db, position_values_map)
        buy_transactions == QueryAll({t \in db : t.transaction_type = "BUY"})
        total_invested ==
            Sum([i \in 1..Len(buy_transactions) |->
                    buy_transactions[i].price_per_unit * buy_transactions[i].units])
        sell_transactions == QueryAll({t \in db : t.transaction_type = "SELL"})
        total_withdrawn ==
            Sum([i \in 1..Len(sell_transactions) |->
                    sell_transactions[i].price_per_unit * sell_transactions[i].units])
        all_transactions == QueryAll(db)
        total_fees == Sum([i \in 1..Len(all_transactions) |-> all_transactions[i].fee])
        total_current_portfolio_invested_value ==
            IF position_values_rows # << >>
            THEN Sum([i \in 1..Len(position_values_rows) |->
                        position_values_rows[i].current_value])
            ELSE 0
        total_profit_loss ==
            TotalProfitLoss(total_current_portfolio_invested_value,
                            total_withdrawn, total_fees, total_invested)
    IN  [total_invested |-> total_invested,
         total_withdrawn |-> total_withdrawn,
         total_fees |-> total_fees,
         total_current_portfolio_invested_value |->
             total_current_portfolio_invested_value,
         total_profit_loss |-> total_profit_loss,
         holdings |-> lists.holdings,
         closed_positions |-> lists.closed_positions]

(***************************************************************************)
(* transaction_service                                                     *)
(*                                                                         *)
(* A mutation commits the transaction store first and runs the position-   *)
(* value cleanup afterwards.  The database can fail under the cleanup: a   *)
(* fault names the call that raises an unexpected error (not               *)
(* PositionValueNotFoundError) during that phase:                          *)
(*   "cost_basis"  the query of calculate_cost_basis raises;               *)
(*   "delete"      the commit of delete_position_value raises, the row     *)
(*                 stays.                                                  *)
(***************************************************************************)
Faults == {"none", "cost_basis", "delete"}

\* Result of a cleanup step: the PositionValue store after it, whether an
\* unexpected error was raised inside it (failed), and whether that error
\* leaves the step (raised)
CleanupResult(pvs, failed, raised) ==
    [position_values |-> pvs, failed |-> failed, raised |-> raised]

\* _cleanup_position_value_for_closed_position: every Exception is caught
cleanup_position_value_for_closed_position(db, pvs, isin, fault) ==
    IF fault = "cost_basis"
    THEN CleanupResult(pvs, TRUE, FALSE)
    ELSE LET cost_basis == calculate_cost_basis(db, isin, None)
         IN  IF cost_basis # None /\ cost_basis[1].total_units = 0
             THEN LET deleted == delete_position_value(pvs, isin)
                  IN  IF deleted.raised
                      THEN CleanupResult(pvs, FALSE, FALSE)
                      ELSE IF fault = "delete"
                      THEN CleanupResult(pvs, TRUE, FALSE)
                      ELSE CleanupResult(deleted.position_values, FALSE, FALSE)
             ELSE CleanupResult(pvs, FALSE, FALSE)

\* The "position reopened" block at the end of update_transaction and of
\* delete_transaction: only PositionValueNotFoundError is caught
cleanup_reopened_position(db, pvs, isin, units_before, fault) ==
    IF units_before = 0
    THEN IF fault = "cost_basis"
         THEN CleanupResult(pvs, TRUE, TRUE)
         ELSE LET cost_basis_after == calculate_cost_basis(db, isin, None)
                  units_after == IF cost_basis_after # None
                                 THEN cost_basis_after[1].total_units ELSE 0
              IN  IF units_after > 0
                  THEN LET deleted == delete_position_value(pvs, isin)
                       IN  IF deleted.raised
                           THEN CleanupResult(pvs, FALSE, FALSE)
                           ELSE IF fault = "delete"
                           THEN CleanupResult(pvs, TRUE, TRUE)
                           ELSE CleanupResult(deleted.position_values, FALSE, FALSE)
                  ELSE CleanupResult(pvs, FALSE, FALSE)
    ELSE CleanupResult(pvs, FALSE, FALSE)

\* ShouldDelete that spares the closed positions
ShouldDelete_OrphansOnly(cost_basis) == cost_basis = None

\* should_delete: no transactions, or the position is closed
ShouldDelete(cost_basis) ==
    \/ cost_basis = None
    \/ cost_basis[1].total_units = 0

RECURSIVE OrphanCleanupLoop(_, _, _, _, _)
\* The loop of cleanup_orphaned_position_values over the rows read at its
\* start.  faults are the codes whose DELETE the database refuses: the
\* exception is caught, recorded in errors, and the row stays
OrphanCleanupLoop(position_values_list, db, pvs, faults, stats) ==
    IF position_values_list = << >>
    THEN [position_values |-> pvs, stats |-> stats]
    ELSE LET pv == Head(position_values_list)
             rest == Tail(position_values_list)
             should_delete == ShouldDelete(calculate_cost_basis(db, pv.isin, None))
         IN  IF ~should_delete
             THEN OrphanCleanupLoop(rest, db, pvs, faults, stats)
             ELSE IF pv.isin \in faults \/ delete_position_value(pvs, pv.isin).raised
             THEN OrphanCleanupLoop(
                      rest, db, pvs, faults,
                      [stats EXCEPT !.errors = Append(@, [isin |-> pv.isin])])
             ELSE OrphanCleanupLoop(
                      rest, db, delete_position_value(pvs, pv.isin).position_values,
                      faults,
                      [stats EXCEPT !.deleted = @ + 1,
                                    !.deleted_isins = Append(@, pv.isin)])

\* cleanup_orphaned_position_values: the store after it and the statistics
cleanup_orphaned_position_values(db, pvs, faults) ==
    LET position_values_list == get_all_position_values(pvs)
    IN  OrphanCleanupLoop(position_values_list, db, pvs, faults,
                          [checked |-> Len(position_values_list), deleted |-> 0,
                           deleted_isins |-> << >>, errors |-> << >>])

\* What the last operation was and how it ended.  A mutation records the
\* instruments it touched; a query records its arguments and what it returned
Outcome(op, result, isin, original_isin, cleanup_failed) ==
    [op |-> op, result |-> result, isin |-> isin,
     original_isin |-> original_isin, cleanup_failed |-> cleanup_failed,
     as_of_date |-> None, returned |-> None]

QueryOutcome(op, isin, as_of_date, returned) ==
    [op |-> op, result |-> "ok", isin |-> isin, original_isin |-> isin,
     cleanup_failed |-> FALSE, as_of_date |-> as_of_date,
     returned |-> Some(returned)]

\* The primary key of a new row: one more than the largest stored one
NextId(rows) ==
    IF rows = {} THEN 1
    ELSE (CHOOSE i \in {r.id : r \in rows} : \A r \in rows : r.id <= i) + 1

\* TransactionCreate: the validated requests (validate_isin upper-cases)
TransactionCreateOf(isins, profiles) ==
    {[date |-> p.date, isin |-> i, fee |-> p.fee,
      price_per_unit |-> p.price_per_unit, units |-> p.units,
      transaction_type |-> t] :
        i \in isins, t \in TransactionTypes, p \in profiles}

\* Transaction(**transaction_data.model_dump()) with its primary key
StoredTransaction(id, data) ==
    [id |-> id, date |-> data.date, isin |-> Upper(data.isin), fee |-> data.fee,
     price_per_unit |-> data.price_per_unit, units |-> data.units,
     transaction_type |-> data.transaction_type]

create_transaction(transaction_data) ==
    /\ NextId(transactions) <= MaxTxns
    /\ LET transaction == StoredTransaction(NextId(transactions), transaction_data)
       IN  /\ transactions' = transactions \cup {transaction}
           /\ last' = Outcome("create_transaction", "ok", transaction.isin,
                              transaction.isin, FALSE)
    /\ UNCHANGED position_values
    /\ UNCHANGED asset_vars

\* TransactionUpdate: every field is optional; model_dump(exclude_unset=True)
\* keeps the fields that were given
UpdateField(update_data, field, old) ==
    IF update_data[field] = None THEN old ELSE update_data[field][1]

ApplyUpdate(transaction, update_data) ==
    [id |-> transaction.id,
     date |-> UpdateField(update_data, "date", transaction.date),
     isin |-> Upper(UpdateField(update_data, "isin", transaction.isin)),
     fee |-> UpdateField(update_data, "fee", transaction.fee),
     price_per_unit |->
         UpdateField(update_data, "price_per_unit", transaction.price_per_unit),
     units |-> UpdateField(update_data, "units", transaction.units),
     transaction_type |->
         UpdateField(update_data, "transaction_type", transaction.transaction_type)]

Optional(S) == {None} \cup {Some(v) : v \in S}

NoUpdate ==
    [date |-> None, isin |-> None, fee |-> None, price_per_unit |-> None,
     units |-> None, transaction_type |-> None]

\* TransactionUpdate requests: nothing set, or one of the instrument, the
\* type and the units set
TransactionUpdateInputs ==
    {NoUpdate}
        \cup {[NoUpdate EXCEPT !.isin = Some(i)] : i \in Isins}
        \cup {[NoUpdate EXCEPT !.transaction_type = Some(t)] : t \in TransactionTypes}
        \cup {[NoUpdate EXCEPT !.units = Some(p.units)] : p \in UnitProfiles}

update_transaction(transaction_id, update_data, fault) ==
    \E transaction \in transactions :
        /\ transaction.id = transaction_id
        /\ LET original_isin == transaction.isin
               cost_basis_before ==
                   calculate_cost_basis(transactions, original_isin, None)
               units_before == IF cost_basis_before # None
                               THEN cost_basis_before[1].total_units ELSE 0
               updated == ApplyUpdate(transaction, update_data)
               db == (transactions \ {transaction}) \cup {updated}
               isin_changed == updated.isin # original_isin
               c1 == cleanup_position_value_for_closed_position(
                         db, position_values, updated.isin, fault)
               c2 == IF isin_changed
                     THEN cleanup_position_value_for_closed_position(
                              db, c1.position_values, original_isin, fault)
                     ELSE c1
               c3 == cleanup_reopened_position(
                         db, c2.position_values, updated.isin, units_before, fault)
           IN  /\ transactions' = db
               /\ position_values' = c3.position_values
               /\ last' = Outcome("update_transaction",
                                  IF c3.raised THEN "error" ELSE "ok",
                                  updated.isin, original_isin,
                                  c1.failed \/ c2.failed \/ c3.failed)
        /\ UNCHANGED asset_vars

delete_transaction(transaction_id, fault) ==
    \E transaction \in transactions :
        /\ transaction.id = transaction_id
        /\ LET isin_to_check == transaction.isin
               cost_basis_before ==
                   calculate_cost_basis(transactions, isin_to_check, None)
               units_before == IF cost_basis_before # None
                               THEN cost_basis_before[1].total_units ELSE 0
               db == transactions \ {transaction}
               c1 == cleanup_position_value_for_closed_position(
                         db, position_values, isin_to_check, fault)
               c2 == cleanup_reopened_position(
                         db, c1.position_values, isin_to_check, units_before, fault)
           IN  /\ transactions' = db
               /\ position_values' = c2.position_values
               /\ last' = Outcome("delete_transaction",
                                  IF c2.raised THEN "error" ELSE "ok",
                                  isin_to_check, isin_to_check,
                                  c1.failed \/ c2.failed)
        /\ UNCHANGED asset_vars

\* The asset tables of a new database, and no reply yet
InitAssets ==
    /\ other_assets = {}
    /\ user_settings = None
    /\ asset_snapshots = {}
    /\ reply = [op |-> "init", args |-> None, result |-> "ok", returned |-> None]

(***************************************************************************)
(* The position-value endpoints                                            *)
(***************************************************************************)
PositionValueCreateInputs == [isin : RawIsins, current_value : Values]

UpsertPositionValue(position_value_data) ==
    /\ position_values' = upsert_position_value(position_values, position_value_data)
    /\ last' = Outcome("upsert_position_value", "ok",
                       Upper(position_value_data.isin),
                       Upper(position_value_data.isin), FALSE)
    /\ UNCHANGED transactions
    /\ UNCHANGED asset_vars

\* An unknown code raises PositionValueNotFoundError and changes nothing
DeletePositionValue(isin) ==
    /\ ~delete_position_value(position_values, isin).raised
    /\ position_values' = delete_position_value(position_values, isin).position_values
    /\ last' = Outcome("delete_position_value", "ok", Upper(isin), Upper(isin), FALSE)
    /\ UNCHANGED transactions
    /\ UNCHANGED asset_vars

(***************************************************************************)
(* The state machine                                                       *)
(***************************************************************************)
Init ==
    /\ transactions = {}
    /\ position_values = {}
    /\ last = Outcome("init", "ok", "", "", FALSE)
    /\ InitAssets

CreateTransaction ==
    \E d \in TransactionCreateOf(Isins, UnitProfiles) : create_transaction(d)

UpdateTransaction ==
    \E id \in 1..MaxTxns, u \in TransactionUpdateInputs, f \in Faults :
        update_transaction(id, u, f)

DeleteTransaction ==
    \E id \in 1..MaxTxns, f \in Faults : delete_transaction(id, f)

UpsertPV == \E d \in PositionValueCreateInputs : UpsertPositionValue(d)

DeletePV == \E i \in RawIsins : DeletePositionValue(i)

Next ==
    \/ CreateTransaction
    \/ UpdateTransaction
    \/ DeleteTransaction
    \/ UpsertPV
    \/ DeletePV

Spec == Init /\ [][Next]_vars

(***************************************************************************)
(* SpecValues: the PositionValue table under its own two writes, while     *)
(* transactions are recorded beside it.                                    *)
(***************************************************************************)
NextValues ==
    \/ CreateTransaction
    \/ UpsertPV
    \/ DeletePV

SpecValues == Init /\ [][NextValues]_vars

(***************************************************************************)
(* The calculators as operations on a given store.  Every set of at most   *)
(* MaxTxns valid rows with distinct keys, with any PositionValue rows, is  *)
(* a store the mutations above can build; SpecQuery starts from each of    *)
(* them and applies the calculators, which change no stored row.           *)
(***************************************************************************)
CalculateCostBasis(isin, as_of_date) ==
    /\ last' = QueryOutcome("calculate_cost_basis", isin, as_of_date,
                            calculate_cost_basis(transactions, isin, as_of_date))
    /\ UNCHANGED <<transactions, position_values>>
    /\ UNCHANGED asset_vars

CalculateHoldings ==
    /\ last' = QueryOutcome(
                   "calculate_current_holdings_and_closed_positions", "", None,
                   calculate_current_holdings_and_closed_positions(
                       transactions,
                       PositionValuesMap(get_all_position_values(position_values))))
    /\ UNCHANGED <<transactions, position_values>>
    /\ UNCHANGED asset_vars

\* GetPortfolioSummary that tidies the PositionValue table as it reads it
GetPortfolioSummary_Tidying ==
    /\ last' = QueryOutcome("get_portfolio_summary", "", None,
                            get_portfolio_summary(transactions, position_values))
    /\ position_values' =
           cleanup_orphaned_position_values(transactions, position_values,
                                            {}).position_values
    /\ UNCHANGED transactions
    /\ UNCHANGED asset_vars

GetPortfolioSummary ==
    /\ last' = QueryOutcome("get_portfolio_summary", "", None,
                            get_portfolio_summary(transactions, position_values))
    /\ UNCHANGED <<transactions, position_values>>
    /\ UNCHANGED asset_vars

CleanupOrphanedPositionValues(faults) ==
    \E cleaned \in {cleanup_orphaned_position_values(transactions, position_values,
                                                     faults)} :
        /\ position_values' = cleaned.position_values
        /\ last' = QueryOutcome("cleanup_orphaned_position_values", "", None,
                                cleaned.stats)
        /\ UNCHANGED transactions
        /\ UNCHANGED asset_vars

InitQuery ==
    /\ \E f \in [1..MaxTxns -> Optional(TransactionCreateOf(Isins, Profiles))] :
          transactions = {StoredTransaction(id, f[id][1]) :
                            id \in {k \in 1..MaxTxns : f[k] # None}}
    /\ position_values \in SUBSET StoredValues
    /\ last = Outcome("init", "ok", "", "", FALSE)
    /\ InitAssets

QueryCostBasis ==
    \E i \in RawIsins, d \in Cutoffs : CalculateCostBasis(i, d)

NextQuery ==
    \/ QueryCostBasis
    \/ CalculateHoldings
    \/ GetPortfolioSummary

SpecQuery == InitQuery /\ [][NextQuery]_vars

(***************************************************************************)
(* SpecCleanup: the maintenance cleanup on a given store, from each store  *)
(* of SpecQuery, with and without a DELETE that the database refuses.      *)
(***************************************************************************)
CleanupOrphans == \E faults \in SUBSET Isins : CleanupOrphanedPositionValues(faults)

NextCleanup == CleanupOrphans

SpecCleanup == InitQuery /\ [][NextCleanup]_vars

(***************************************************************************)
(* The strings of the asset tables and their order.  SQLite (BINARY        *)
(* collation) and Python's sorted() order strings by code point; the       *)
(* sample strings are listed in that order, and NULL sorts first.          *)
(***************************************************************************)
AssetTypeOrder ==
    <<"cash_czk", "cash_eur", "cd_account", "crypto", "investments", "pension_fund">>
AccountOrder == <<"CSOB", "Degiro", "RAIF", "Revolut", "Wise">>
CurrencyOrder == <<"CZK", "EUR">>

IndexOf(seq, x) == CHOOSE i \in DOMAIN seq : seq[i] = x

AssetTypeRank(asset_type) == IndexOf(AssetTypeOrder, asset_type)

AssetDetailRank(asset_detail) ==
    IF asset_detail = None THEN 0 ELSE IndexOf(AccountOrder, asset_detail[1])

CurrencyRank(currency) == IndexOf(CurrencyOrder, currency)

RECURSIVE SortedBy(_, _)
\* The elements of the finite set S as a list in ascending order of key[x]
SortedBy(S, key) ==
    IF S = {} THEN << >>
    ELSE LET first == CHOOSE x \in S : \A y \in S : key[x] <= key[y]
         IN  <<first>> \o SortedBy(S \ {first}, key)

(***************************************************************************)
(* Decimal arithmetic on fractions, and the Numeric columns.  An amount is *)
(* a whole number of minor units (0.01); an exchange rate is a whole       *)
(* number of hundredths (25.00 is 2500).                                   *)
(***************************************************************************)
DecimalOf(n) == [num |-> n, den |-> 1]

DecimalAdd(p, q) == DecimalDiv(p.num * q.den + q.num * p.den, p.den * q.den)

\* An amount in the other currency's minor units: value / exchange_rate
DecimalDivRate(value, exchange_rate) == DecimalDiv(value * 100, exchange_rate)

\* A Numeric(15, 2) column: SQLite keeps the number as a float and the
\* result processor reads it back as Decimal("%.2f" % float), the nearest
\* amount of two decimal places (a tie goes to the even one)
Numeric2(q) ==
    LET floor == q.num \div q.den
        twice == 2 * (q.num - floor * q.den)
    IN  IF twice < q.den THEN floor
        ELSE IF twice > q.den THEN floor + 1
        ELSE IF floor % 2 = 0 THEN floor ELSE floor + 1

(***************************************************************************)
(* user_setting_service                                                    *)
(*                                                                         *)
(* user_settings is the row of key czk_eur_exchange_rate: None, or         *)
(* Some(setting_value).  str(exchange_rate) and Decimal(setting_value) are *)
(* exact for a rate of two decimal places, so the string is kept as the    *)
(* number of hundredths.                                                   *)
(***************************************************************************)
\* A Python value that is a Decimal or a UserSetting row
DecimalValue(d) == [type |-> "Decimal", value |-> d]
UserSettingRow(setting_value) == [type |-> "UserSetting", value |-> setting_value]

\* get_exchange_rate_setting: the UserSetting row, or None
get_exchange_rate_setting(settings) ==
    IF settings = None THEN None ELSE Some(UserSettingRow(settings[1]))

\* update_exchange_rate_setting: both branches leave the one row holding
\* str(exchange_rate)
update_exchange_rate_setting(settings, exchange_rate) == Some(exchange_rate)

(***************************************************************************)
(* other_asset_service                                                     *)
(*                                                                         *)
(* An OtherAsset row is [asset_type, asset_detail, currency, value]; its   *)
(* id and timestamps are read by none of the modelled computations.        *)
(***************************************************************************)
\* The rows with the given (asset_type, asset_detail)
OtherAssetRows(assets, asset_type, asset_detail) ==
    {a \in assets : a.asset_type = asset_type /\ a.asset_detail = asset_detail}

\* upsert_other_asset: the store after the call
upsert_other_asset(assets, asset_data) ==
    LET existing == OtherAssetRows(assets, asset_data.asset_type, asset_data.asset_detail)
    IN  IF existing # {}
        THEN LET row == CHOOSE a \in existing : TRUE
             IN  (assets \ {row}) \cup
                 {[row EXCEPT !.currency = asset_data.currency,
                              !.value = asset_data.value]}
        ELSE assets \cup {[asset_type |-> asset_data.asset_type,
                           asset_detail |-> asset_data.asset_detail,
                           currency |-> asset_data.currency,
                           value |-> asset_data.value]}

\* get_other_asset: the row, or None where the code raises
\* OtherAssetNotFoundError
get_other_asset(assets, asset_type, asset_detail) ==
    LET found == OtherAssetRows(assets, asset_type, asset_detail)
    IN  IF found = {} THEN None ELSE Some(CHOOSE a \in found : TRUE)

\* get_all_other_assets: ordered by asset_type, then asset_detail
get_all_other_assets(assets) ==
    SortedBy(assets,
             [a \in assets |->
                 AssetTypeRank(a.asset_type) * (Len(AccountOrder) + 1)
                     + AssetDetailRank(a.asset_detail)])

\* delete_other_asset: raised = TRUE stands for OtherAssetNotFoundError
delete_other_asset(assets, asset_type, asset_detail) ==
    LET other_asset == get_other_asset(assets, asset_type, asset_detail)
    IN  IF other_asset = None
        THEN [raised |-> TRUE, other_assets |-> assets]
        ELSE [raised |-> FALSE, other_assets |-> assets \ {other_asset[1]}]

\* The default rate 25.00
DefaultExchangeRate == 2500

\* get_exchange_rate_setting(db) or Decimal("25.00"): a UserSetting row is
\* truthy, so a stored setting yields the row itself, not its value
ExchangeRateOrDefault(settings) ==
    LET setting == get_exchange_rate_setting(settings)
    IN  IF setting # None THEN setting[1] ELSE DecimalValue(DefaultExchangeRate)

\* InvestmentsValue taken from the total of the summary, which sums every
\* stored PositionValue
InvestmentsValue_AllPositionValues(portfolio_summary) ==
    portfolio_summary.total_current_portfolio_invested_value

\* The loop over portfolio_summary.holdings, a holding without a value skipped
InvestmentsValue(portfolio_summary) ==
    Sum([i \in 1..Len(portfolio_summary.holdings) |->
            IF portfolio_summary.holdings[i].current_value # None
            THEN portfolio_summary.holdings[i].current_value[1]
            ELSE 0])

\* get_all_other_assets_with_investments: the synthetic investments row
\* first, then the stored rows, and the rate
get_all_other_assets_with_investments(db, pvs, assets, settings) ==
    LET exchange_rate == ExchangeRateOrDefault(settings)
        real_assets == get_all_other_assets(assets)
        InvestmentsAsset(portfolio_summary) ==
            [asset_type |-> "investments", asset_detail |-> None,
             currency |-> "EUR", value |-> InvestmentsValue(portfolio_summary)]
    IN  CHOOSE all \in
            {[assets |-> <<InvestmentsAsset(portfolio_summary)>> \o real_assets,
              exchange_rate |-> exchange_rate] :
                 portfolio_summary \in {get_portfolio_summary(db, pvs)}} : TRUE

(***************************************************************************)
(* asset_snapshot_service                                                  *)
(*                                                                         *)
(* A timestamp is a whole number of ticks, TicksPerDay to the day.  An     *)
(* AssetSnapshot row is [id, snapshot_date, asset_type, asset_detail,      *)
(* currency, value, exchange_rate, value_eur].                             *)
(***************************************************************************)
\* value_eur of one asset: a Decimal divided by a UserSetting row raises
\* TypeError (raised = TRUE)
ValueEur(asset, exchange_rate) ==
    IF asset.currency = "CZK"
    THEN IF exchange_rate.type = "Decimal"
         THEN [raised |-> FALSE,
               value_eur |-> DecimalDivRate(asset.value, exchange_rate.value)]
         ELSE [raised |-> TRUE, value_eur |-> DecimalZero]
    ELSE [raised |-> FALSE, value_eur |-> DecimalOf(asset.value)]

\* The row as the table holds it once flushed
SnapshotRow(id, snapshot_date, asset, exchange_rate, value_eur) ==
    [id |-> id, snapshot_date |-> snapshot_date,
     asset_type |-> asset.asset_type, asset_detail |-> asset.asset_detail,
     currency |-> asset.currency, value |-> asset.value,
     exchange_rate |-> exchange_rate, value_eur |-> Numeric2(value_eur)]

\* SnapshotDate that takes the clock whatever timestamp is given
SnapshotDate_AlwaysNow(snapshot_datetime, now) == now

\* snapshot_datetime or datetime.utcnow()
SnapshotDate(snapshot_datetime, now) ==
    IF snapshot_datetime # None THEN snapshot_datetime[1] ELSE now

RECURSIVE DecimalSum(_)
DecimalSum(s) ==
    IF s = << >> THEN DecimalZero ELSE DecimalAdd(Head(s), DecimalSum(Tail(s)))

\* AddAll that replaces the stored rows of the same snapshot_date
AddAll_ReplacingDate(snapshots, rows) ==
    {s \in snapshots : \A i \in 1..Len(rows) : s.snapshot_date # rows[i].snapshot_date}
        \cup {rows[i] : i \in 1..Len(rows)}

\* db.add_all(snapshots); db.commit(): the table with the new rows
AddAll(snapshots, rows) == snapshots \cup {rows[i] : i \in 1..Len(rows)}

\* create_snapshot: raised = TRUE when the conversion raises TypeError or the
\* flush cannot bind a UserSetting row to the Numeric column exchange_rate;
\* then the transaction is never committed and no row is stored.  Otherwise
\* the returned rows are the refreshed ones and the metadata total is the sum
\* of the computed (unrounded) value_eur
create_snapshot(db, pvs, assets, settings, snapshots, snapshot_datetime, now) ==
    LET snapshot_date == SnapshotDate(snapshot_datetime, now)
        first_id == NextId(snapshots)
        Created(all) ==
            LET exchange_rate == all.exchange_rate
                converted == [i \in 1..Len(all.assets) |->
                                 ValueEur(all.assets[i], exchange_rate)]
                raised == \/ \E i \in 1..Len(all.assets) : converted[i].raised
                          \/ exchange_rate.type # "Decimal"
                rows == [i \in 1..Len(all.assets) |->
                            SnapshotRow(first_id + i - 1, snapshot_date, all.assets[i],
                                        exchange_rate.value, converted[i].value_eur)]
                metadata ==
                    [snapshot_date |-> snapshot_date,
                     exchange_rate_used |-> exchange_rate.value,
                     total_assets_captured |-> Len(rows),
                     total_value_eur |->
                         DecimalSum([i \in 1..Len(all.assets) |->
                                        converted[i].value_eur])]
            IN  IF raised
                THEN [raised |-> TRUE, asset_snapshots |-> snapshots,
                      snapshots |-> << >>, metadata |-> None]
                ELSE [raised |-> FALSE,
                      asset_snapshots |-> AddAll(snapshots, rows),
                      snapshots |-> rows, metadata |-> Some(metadata)]
    IN  CHOOSE created \in
            {Created(all) :
                all \in {get_all_other_assets_with_investments(db, pvs, assets,
                                                               settings)}} : TRUE

\* delete_snapshots_by_date that takes the older rows along
delete_snapshots_by_date_UpTo(snapshots, snapshot_date) ==
    LET found == {s \in snapshots : s.snapshot_date = snapshot_date}
    IN  IF found = {}
        THEN [raised |-> TRUE, asset_snapshots |-> snapshots, deleted_count |-> 0]
        ELSE [raised |-> FALSE,
              asset_snapshots |-> {s \in snapshots : s.snapshot_date > snapshot_date},
              deleted_count |-> Cardinality(found)]

\* delete_snapshots_by_date: raised = TRUE stands for SnapshotNotFoundError
delete_snapshots_by_date(snapshots, snapshot_date) ==
    LET found == {s \in snapshots : s.snapshot_date = snapshot_date}
    IN  IF found = {}
        THEN [raised |-> TRUE, asset_snapshots |-> snapshots, deleted_count |-> 0]
        ELSE [raised |-> FALSE,
              asset_snapshots |-> {s \in snapshots : s.snapshot_date # snapshot_date},
              deleted_count |-> Cardinality(found)]

\* delete_all_snapshots
delete_all_snapshots(snapshots) ==
    [asset_snapshots |-> {}, deleted_count |-> Cardinality(snapshots)]

(***************************************************************************)
(* asset_snapshot_service.get_snapshot_summaries                           *)
(***************************************************************************)
\* The date filters with an end date that leaves its own rows out
DateFilter_EndExclusive(snapshots, start_date, end_date) ==
    {s \in snapshots :
        /\ (start_date # None => s.snapshot_date >= start_date[1])
        /\ (end_date # None => s.snapshot_date < end_date[1])}

\* The two date filters of the query, both inclusive
DateFilter(snapshots, start_date, end_date) ==
    {s \in snapshots :
        /\ (start_date # None => s.snapshot_date >= start_date[1])
        /\ (end_date # None => s.snapshot_date <= end_date[1])}

\* func.sum(column) over the rows of one group.  The column is a
\* Numeric(15, 2): the sum of the stored amounts, read back to two places
SqlSum(rows, column) ==
    LET list == QueryAll(rows)
    IN  Sum([i \in 1..Len(list) |-> list[i][column]])

\* The rows of the group of r
GroupOf(rows, r) ==
    {s \in rows : /\ s.snapshot_date = r.snapshot_date
                  /\ s.currency = r.currency
                  /\ s.asset_type = r.asset_type
                  /\ s.exchange_rate = r.exchange_rate}

\* GROUP BY snapshot_date, currency, asset_type, exchange_rate with the two
\* SUMs: one result row per group
GroupBy(rows) ==
    {[snapshot_date |-> r.snapshot_date, currency |-> r.currency,
      asset_type |-> r.asset_type, exchange_rate |-> r.exchange_rate,
      total_value |-> SqlSum(GroupOf(rows, r), "value"),
      total_value_eur |-> SqlSum(GroupOf(rows, r), "value_eur")] : r \in rows}

\* ORDER BY snapshot_date DESC over the grouped rows: SQLite walks the
\* groups in the order of the GROUP BY columns within one date
GroupBefore(a, b) ==
    \/ a.snapshot_date > b.snapshot_date
    \/ /\ a.snapshot_date = b.snapshot_date
       /\ \/ CurrencyRank(a.currency) < CurrencyRank(b.currency)
          \/ /\ a.currency = b.currency
             /\ \/ AssetTypeRank(a.asset_type) < AssetTypeRank(b.asset_type)
                \/ /\ a.asset_type = b.asset_type
                   /\ a.exchange_rate < b.exchange_rate

RECURSIVE OrderGroups(_)
OrderGroups(groups) ==
    IF groups = {} THEN << >>
    ELSE LET first == CHOOSE g \in groups :
                          \A o \in groups : o = g \/ GroupBefore(g, o)
         IN  <<first>> \o OrderGroups(groups \ {first})

\* A Python dict as a function; dict[key] += v, or dict[key] = v for a new key
EmptyDict == [k \in {} |-> 0]

Accumulate(dict, key, v) ==
    IF key \in DOMAIN dict
    THEN [dict EXCEPT ![key] = @ + v]
    ELSE dict @@ (key :> v)

RECURSIVE SummariesLoop(_, _)
\* The loop over the result rows that fills summaries_dict
SummariesLoop(results, summaries_dict) ==
    IF results = << >> THEN summaries_dict
    ELSE LET row == Head(results)
             snapshot_date == row.snapshot_date
             initialized ==
                 IF snapshot_date \in DOMAIN summaries_dict
                 THEN summaries_dict
                 ELSE summaries_dict @@
                      (snapshot_date :>
                          [snapshot_date |-> snapshot_date,
                           exchange_rate_used |-> row.exchange_rate,
                           total_value_eur |-> 0,
                           by_currency |-> EmptyDict,
                           by_asset_type |-> EmptyDict])
             accumulated ==
                 [initialized EXCEPT
                     ![snapshot_date].total_value_eur = @ + row.total_value_eur,
                     ![snapshot_date].by_currency =
                         Accumulate(@, row.currency, row.total_value),
                     ![snapshot_date].by_asset_type =
                         Accumulate(@, row.asset_type, row.total_value_eur)]
         IN  SummariesLoop(Tail(results), accumulated)

\* sorted(dict.items()) as the list of breakdown entries
CurrencyBreakdown(by_currency) ==
    LET keys == SortedBy(DOMAIN by_currency,
                         [c \in DOMAIN by_currency |-> CurrencyRank(c)])
    IN  [i \in 1..Len(keys) |->
            [currency |-> keys[i], total_value |-> by_currency[keys[i]]]]

AssetTypeBreakdown(by_asset_type) ==
    LET keys == SortedBy(DOMAIN by_asset_type,
                         [t \in DOMAIN by_asset_type |-> AssetTypeRank(t)])
    IN  [i \in 1..Len(keys) |->
            [asset_type |-> keys[i], total_value_eur |-> by_asset_type[keys[i]]]]

\* The summaries in descending order of date, the two changes still 0
SummaryList(summaries_dict) ==
    LET dates == SortedBy(DOMAIN summaries_dict,
                          [d \in DOMAIN summaries_dict |-> 0 - d])
    IN  [i \in 1..Len(dates) |->
            LET summary_data == summaries_dict[dates[i]]
            IN  [snapshot_date |-> dates[i],
                 total_value_eur |-> summary_data.total_value_eur,
                 exchange_rate_used |-> summary_data.exchange_rate_used,
                 by_currency |-> CurrencyBreakdown(summary_data.by_currency),
                 by_asset_type |-> AssetTypeBreakdown(summary_data.by_asset_type),
                 absolute_change_from_oldest |-> 0,
                 percentage_change_from_oldest |-> DecimalZero]]

TicksPerDay == 2

\* DaysBetween that counts a started day as a day
DaysBetween_Started(latest_date, oldest_date) ==
    (latest_date - oldest_date + TicksPerDay - 1) \div TicksPerDay

\* timedelta.days of latest - oldest
DaysBetween(latest_date, oldest_date) == (latest_date - oldest_date) \div TicksPerDay

\* ((latest - oldest) / days * 30).quantize(0.01), or 0
AvgMonthlyIncrement(summaries) ==
    LET oldest == summaries[Len(summaries)]
        latest == summaries[1]
        days_between == DaysBetween(latest.snapshot_date, oldest.snapshot_date)
    IN  IF Len(summaries) <= 1 \/ days_between = 0
        THEN 0
        ELSE Numeric2(DecimalMul(
                 DecimalDiv(latest.total_value_eur - oldest.total_value_eur,
                            days_between), 30))

\* ChangeFromOldest with the percentage left as a ratio (no * 100)
ChangeFromOldest_Ratio(summary, oldest_value) ==
    LET absolute_change == summary.total_value_eur - oldest_value
    IN  [summary EXCEPT
            !.absolute_change_from_oldest = absolute_change,
            !.percentage_change_from_oldest =
                IF oldest_value > 0
                THEN DecimalDiv(absolute_change, oldest_value)
                ELSE DecimalZero]

\* The changes of one summary against the baseline
ChangeFromOldest(summary, oldest_value) ==
    LET absolute_change == summary.total_value_eur - oldest_value
    IN  [summary EXCEPT
            !.absolute_change_from_oldest = absolute_change,
            !.percentage_change_from_oldest =
                IF oldest_value > 0
                THEN DecimalMul(DecimalDiv(absolute_change, oldest_value), 100)
                ELSE DecimalZero]

get_snapshot_summaries(snapshots, start_date, end_date) ==
    LET results == OrderGroups(GroupBy(DateFilter(snapshots, start_date, end_date)))
        summaries == SummaryList(SummariesLoop(results, EmptyDict))
    IN  IF results = << >>
        THEN [summaries |-> << >>, avg_monthly_increment |-> 0]
        ELSE [summaries |->
                  [i \in 1..Len(summaries) |->
                      ChangeFromOldest(summaries[i],
                                       summaries[Len(summaries)].total_value_eur)],
              avg_monthly_increment |-> AvgMonthlyIncrement(summaries)]

(***************************************************************************)
(* snapshot_csv_parser and asset_snapshot_service.import_snapshots_from_csv*)
(*                                                                         *)
(* A CSV file is the list of its data rows as csv.DictReader yields them.  *)
(* A cell that holds a timestamp is None when its text is no ISO 8601      *)
(* timestamp; a decimal cell is the number it spells.                      *)
(***************************************************************************)
\* len(currency) on the codes of the model
CurrencyLength(currency) == IF currency = "EU" THEN 2 ELSE 3

\* parse_snapshot_row: raised = TRUE stands for the ValueError of the row
parse_snapshot_row(row, row_number) ==
    LET currency == Upper(row.currency)
        raised == \/ row.snapshot_date = None
                  \/ row.asset_type = ""
                  \/ CurrencyLength(currency) # 3
                  \/ row.value < 0
                  \/ row.exchange_rate <= 0
                  \/ row.value_eur < 0
    IN  IF raised
        THEN [raised |-> TRUE, row_number |-> row_number]
        ELSE [raised |-> FALSE, row_number |-> row_number,
              snapshot_date |-> row.snapshot_date[1],
              asset_type |-> row.asset_type, asset_detail |-> row.asset_detail,
              currency |-> currency, value |-> row.value,
              exchange_rate |-> row.exchange_rate, value_eur |-> row.value_eur]

\* parse_snapshot_csv: the ValueError of a row is re-raised, so the first
\* row that does not parse ends the parsing of the file
parse_snapshot_csv(csv_content) ==
    LET parsed == [i \in 1..Len(csv_content) |-> parse_snapshot_row(csv_content[i], i)]
    IN  IF \E i \in 1..Len(parsed) : parsed[i].raised
        THEN [raised |-> TRUE, parsed_rows |-> << >>]
        ELSE [raised |-> FALSE, parsed_rows |-> parsed]

\* The results dictionary of an import
ImportResults(total_rows, successful, failed, results, errors) ==
    [total_rows |-> total_rows, successful |-> successful, failed |-> failed,
     results |-> results, errors |-> errors]

RECURSIVE SnapshotImportLoop(_, _, _, _)
\* The loop over the parsed rows.  session is the state of the database
\* session: the rows flushed and not yet committed, and whether a failed
\* flush has rolled the transaction back (then the flushed rows are gone and
\* every later flush raises PendingRollbackError).  flush_fault is the row
\* number whose INSERT the database refuses, 0 for none
SnapshotImportLoop(parsed_rows, flush_fault, session, results) ==
    IF parsed_rows = << >> THEN [session |-> session, results |-> results]
    ELSE LET row_data == Head(parsed_rows)
             id == NextId(session.stored \cup session.flushed)
             snapshot ==
                 [id |-> id, snapshot_date |-> row_data.snapshot_date,
                  asset_type |-> row_data.asset_type,
                  asset_detail |-> row_data.asset_detail,
                  currency |-> row_data.currency, value |-> row_data.value,
                  exchange_rate |-> row_data.exchange_rate,
                  value_eur |-> row_data.value_eur]
             fails == session.rolled_back \/ row_data.row_number = flush_fault
         IN  IF fails
             THEN SnapshotImportLoop(
                      Tail(parsed_rows), flush_fault,
                      [session EXCEPT !.flushed = {}, !.rolled_back = TRUE],
                      [results EXCEPT
                          !.failed = @ + 1,
                          !.errors = Append(@, [row |-> row_data.row_number])])
             ELSE SnapshotImportLoop(
                      Tail(parsed_rows), flush_fault,
                      [session EXCEPT !.flushed = @ \cup {snapshot}],
                      [results EXCEPT
                          !.successful = @ + 1,
                          !.results = Append(@, [row |-> row_data.row_number,
                                                 snapshot_id |-> id])])

\* import_snapshots_from_csv: raised = TRUE when the parser raises ValueError
\* or the final commit raises PendingRollbackError
import_snapshots_from_csv(snapshots, csv_content, flush_fault) ==
    LET parsed == parse_snapshot_csv(csv_content)
        done == SnapshotImportLoop(
                    parsed.parsed_rows, flush_fault,
                    [stored |-> snapshots, flushed |-> {}, rolled_back |-> FALSE],
                    ImportResults(Len(parsed.parsed_rows), 0, 0, << >>, << >>))
    IN  IF parsed.raised
        THEN [raised |-> TRUE, asset_snapshots |-> snapshots,
              results |-> ImportResults(0, 0, 0, << >>, << >>)]
        ELSE IF done.results.successful > 0
        THEN IF done.session.rolled_back
             THEN [raised |-> TRUE, asset_snapshots |-> snapshots,
                   results |-> done.results]
             ELSE [raised |-> FALSE,
                   asset_snapshots |-> snapshots \cup done.session.flushed,
                   results |-> done.results]
        ELSE [raised |-> FALSE, asset_snapshots |-> snapshots,
              results |-> done.results]

(***************************************************************************)
(* csv_parser and transaction_service.degiro_import_csv_transactions       *)
(*                                                                         *)
(* The Date cell is None when its text is no DD-MM-YYYY date; Quantity,    *)
(* Price and the fee cell are the numbers their European notation spells.  *)
(***************************************************************************)
\* len(isin) and ISIN_PATTERN.match(isin) on the codes of the model
IsinLength(isin) == IF isin = "IE00" THEN 4 ELSE 12

MatchesIsinPattern(isin) == isin \in Isins

\* date.today(): the later date of the profiles
Today == CHOOSE d \in Dates : \A o \in Dates : o <= d

\* parse_degiro_row: raised = TRUE stands for the ValueError of the row
parse_degiro_row(row, row_number) ==
    LET isin == Upper(row.ISIN)
        raised == \/ row.Date = None
                  \/ IsinLength(isin) # 12
                  \/ row.Quantity = 0
                  \/ row.Price <= 0
    IN  IF raised
        THEN [raised |-> TRUE, row_number |-> row_number]
        ELSE [raised |-> FALSE, row_number |-> row_number,
              date |-> row.Date[1], isin |-> isin,
              quantity |-> Abs(row.Quantity), price |-> row.Price,
              fee |-> Abs(row.Fee),
              transaction_type |-> IF row.Quantity > 0 THEN "BUY" ELSE "SELL"]

\* parse_degiro_csv: the first row that does not parse ends the parsing
parse_degiro_csv(csv_content) ==
    LET parsed == [i \in 1..Len(csv_content) |-> parse_degiro_row(csv_content[i], i)]
    IN  IF \E i \in 1..Len(parsed) : parsed[i].raised
        THEN [raised |-> TRUE, parsed_rows |-> << >>]
        ELSE [raised |-> FALSE, parsed_rows |-> parsed]

\* TransactionCreate(...) of a parsed row: valid = FALSE stands for the
\* pydantic ValidationError
ValidateTransactionCreate(row_data) ==
    [valid |-> /\ MatchesIsinPattern(Upper(row_data.isin))
               /\ row_data.date <= Today
               /\ row_data.fee >= 0
               /\ row_data.price > 0
               /\ row_data.quantity > 0,
     data |-> [date |-> row_data.date, isin |-> Upper(row_data.isin),
               fee |-> row_data.fee, price_per_unit |-> row_data.price,
               units |-> row_data.quantity,
               transaction_type |-> row_data.transaction_type]]

RECURSIVE DegiroImportLoop(_, _, _)
\* The loop over the parsed rows; create_transaction commits each row
DegiroImportLoop(parsed_rows, db, results) ==
    IF parsed_rows = << >> THEN [transactions |-> db, results |-> results]
    ELSE LET row_data == Head(parsed_rows)
             transaction_create == ValidateTransactionCreate(row_data)
             transaction == StoredTransaction(NextId(db), transaction_create.data)
         IN  IF transaction_create.valid
             THEN DegiroImportLoop(
                      Tail(parsed_rows), db \cup {transaction},
                      [results EXCEPT
                          !.successful = @ + 1,
                          !.results = Append(@, [row |-> row_data.row_number,
                                                 transaction_id |-> transaction.id])])
             ELSE DegiroImportLoop(
                      Tail(parsed_rows), db,
                      [results EXCEPT
                          !.failed = @ + 1,
                          !.errors = Append(@, [row |-> row_data.row_number])])

\* degiro_import_csv_transactions: raised = TRUE stands for CSVImportError
degiro_import_csv_transactions(db, csv_content) ==
    LET parsed == parse_degiro_csv(csv_content)
        done == DegiroImportLoop(
                    parsed.parsed_rows, db,
                    ImportResults(Len(parsed.parsed_rows), 0, 0, << >>, << >>))
    IN  IF parsed.raised
        THEN [raised |-> TRUE, transactions |-> db,
              results |-> ImportResults(0, 0, 0, << >>, << >>)]
        ELSE [raised |-> FALSE, transactions |-> done.transactions,
              results |-> done.results]

(***************************************************************************)
(* The operations on the asset tables as actions.  reply is what the last  *)
(* of them was called with, how it ended and what it returned.             *)
(***************************************************************************)
ReplyOf(op, args, result, returned) ==
    [op |-> op, args |-> args, result |-> result, returned |-> returned]

UpsertOtherAsset(asset_data) ==
    /\ other_assets' = upsert_other_asset(other_assets, asset_data)
    /\ reply' = ReplyOf("upsert_other_asset", asset_data, "ok", None)
    /\ UNCHANGED <<user_settings, asset_snapshots>>
    /\ UNCHANGED portfolio_vars

DeleteOtherAsset(asset_type, asset_detail) ==
    LET deleted == delete_other_asset(other_assets, asset_type, asset_detail)
    IN  /\ other_assets' = deleted.other_assets
        /\ reply' = ReplyOf("delete_other_asset",
                            [asset_type |-> asset_type, asset_detail |-> asset_detail],
                            IF deleted.raised THEN "error" ELSE "ok", None)
        /\ UNCHANGED <<user_settings, asset_snapshots>>
        /\ UNCHANGED portfolio_vars

UpdateExchangeRate(exchange_rate) ==
    /\ user_settings' = update_exchange_rate_setting(user_settings, exchange_rate)
    /\ reply' = ReplyOf("update_exchange_rate_setting", exchange_rate, "ok", None)
    /\ UNCHANGED <<other_assets, asset_snapshots>>
    /\ UNCHANGED portfolio_vars

GetAllOtherAssetsWithInvestments ==
    /\ reply' = ReplyOf("get_all_other_assets_with_investments", None, "ok",
                        Some(get_all_other_assets_with_investments(
                                 transactions, position_values,
                                 other_assets, user_settings)))
    /\ UNCHANGED <<other_assets, user_settings, asset_snapshots>>
    /\ UNCHANGED portfolio_vars

\* The snapshots taken so far: each capture stores one investments row
SnapshotsTaken == {s \in asset_snapshots : s.asset_type = "investments"}

CreateSnapshot(snapshot_datetime, now) ==
    /\ Cardinality(SnapshotsTaken) < MaxSnapshots
    /\ \E created \in {create_snapshot(transactions, position_values, other_assets,
                                         user_settings, asset_snapshots,
                                         snapshot_datetime, now)} :
           /\ asset_snapshots' = created.asset_snapshots
           /\ reply' = ReplyOf("create_snapshot",
                               [snapshot_datetime |-> snapshot_datetime, now |-> now],
                               IF created.raised THEN "error" ELSE "ok",
                               Some([snapshots |-> created.snapshots,
                                     metadata |-> created.metadata]))
    /\ UNCHANGED <<other_assets, user_settings>>
    /\ UNCHANGED portfolio_vars

DeleteSnapshotsByDate(snapshot_date) ==
    LET deleted == delete_snapshots_by_date(asset_snapshots, snapshot_date)
    IN  /\ asset_snapshots' = deleted.asset_snapshots
        /\ reply' = ReplyOf("delete_snapshots_by_date", snapshot_date,
                            IF deleted.raised THEN "error" ELSE "ok",
                            Some(deleted.deleted_count))
        /\ UNCHANGED <<other_assets, user_settings>>
        /\ UNCHANGED portfolio_vars

DeleteAllSnapshots ==
    /\ asset_snapshots # {}
    /\ asset_snapshots' = delete_all_snapshots(asset_snapshots).asset_snapshots
    /\ reply' = ReplyOf("delete_all_snapshots", None, "ok",
                        Some(delete_all_snapshots(asset_snapshots).deleted_count))
    /\ UNCHANGED <<other_assets, user_settings>>
    /\ UNCHANGED portfolio_vars

GetSnapshotSummaries(start_date, end_date) ==
    /\ reply' = ReplyOf("get_snapshot_summaries",
                        [start_date |-> start_date, end_date |-> end_date], "ok",
                        Some(get_snapshot_summaries(asset_snapshots,
                                                    start_date, end_date)))
    /\ UNCHANGED <<other_assets, user_settings, asset_snapshots>>
    /\ UNCHANGED portfolio_vars

ImportSnapshotsFromCsv(csv_content, flush_fault) ==
    \E imported \in {import_snapshots_from_csv(asset_snapshots, csv_content,
                                                flush_fault)} :
        /\ asset_snapshots' = imported.asset_snapshots
        /\ reply' = ReplyOf("import_snapshots_from_csv",
                            [csv_content |-> csv_content, flush_fault |-> flush_fault],
                            IF imported.raised THEN "error" ELSE "ok",
                            Some(imported.results))
        /\ UNCHANGED <<other_assets, user_settings>>
        /\ UNCHANGED portfolio_vars

DegiroImportCsvTransactions(csv_content) ==
    \E imported \in {degiro_import_csv_transactions(transactions, csv_content)} :
        /\ transactions' = imported.transactions
        /\ reply' = ReplyOf("degiro_import_csv_transactions",
                            [csv_content |-> csv_content, flush_fault |-> 0],
                            IF imported.raised THEN "error" ELSE "ok",
                            Some(imported.results))
        /\ last' = Outcome("degiro_import_csv_transactions",
                           IF imported.raised THEN "error" ELSE "ok", "", "", FALSE)
        /\ UNCHANGED <<other_assets, user_settings, asset_snapshots>>
        /\ UNCHANGED position_values

(***************************************************************************)
(* SpecSnapshot: the asset tables under every write of the program, from   *)
(* the empty database.  The portfolio takes one purchase and one position  *)
(* value, enough to move the investments row; the asset tables take one    *)
(* cash account and one rate.                                              *)
(***************************************************************************)
Timestamps == {1, 2, 15}
\* The timestamps a snapshot is taken at, and the clock when none is given
CaptureTimes == {1, 2}
Now == CHOOSE t \in CaptureTimes : \A o \in CaptureTimes : o <= t

SnapshotPurchases ==
    {d \in TransactionCreateOf({"IE00B4L5Y983"}, UnitProfiles) :
        d.transaction_type = "BUY" /\ d.units = 1}
SnapshotPositionValues == {[isin |-> "IE00B4L5Y983", current_value |-> 5]}
SnapshotOtherAssets ==
    {[asset_type |-> "cash_czk", asset_detail |-> Some("CSOB"),
      currency |-> "CZK", value |-> 110]}
ExchangeRates == {2400}

PortfolioWrite ==
    \/ \E d \in SnapshotPurchases : create_transaction(d)
    \/ \E d \in SnapshotPositionValues : UpsertPositionValue(d)

OtherAssetWrite ==
    \/ \E a \in SnapshotOtherAssets : UpsertOtherAsset(a)
    \/ \E a \in SnapshotOtherAssets : DeleteOtherAsset(a.asset_type, a.asset_detail)

ExchangeRateWrite == \E r \in ExchangeRates : UpdateExchangeRate(r)

\* The primary keys run on after a deletion of the older rows: the snapshots
\* stop once the next key passes MaxSnapshotId
TakeSnapshot ==
    /\ NextId(asset_snapshots) <= MaxSnapshotId
    /\ \E t \in Optional(CaptureTimes) : CreateSnapshot(t, Now)

DropSnapshots ==
    \/ \E t \in CaptureTimes : DeleteSnapshotsByDate(t)
    \/ DeleteAllSnapshots

NextSnapshot ==
    \/ PortfolioWrite
    \/ OtherAssetWrite
    \/ ExchangeRateWrite
    \/ TakeSnapshot
    \/ DropSnapshots

SpecSnapshot == Init /\ [][NextSnapshot]_vars

(***************************************************************************)
(* SpecCapture: the capture as a function of the stores.  It starts from   *)
(* every portfolio of at most MaxTxns rows with no other asset and no      *)
(* rate, and from every set of the sample assets with or without a stored  *)
(* rate over a portfolio of one purchase; it reads the asset list and      *)
(* takes snapshots, and nothing else is written.                           *)
(***************************************************************************)
AssetUniverse ==
    {[asset_type |-> "cash_czk", asset_detail |-> Some("CSOB"),
      currency |-> "CZK", value |-> 110],
     [asset_type |-> "cash_czk", asset_detail |-> Some("RAIF"),
      currency |-> "CZK", value |-> 2500],
     [asset_type |-> "cd_account", asset_detail |-> None,
      currency |-> "CZK", value |-> 240000],
     [asset_type |-> "crypto", asset_detail |-> None,
      currency |-> "EUR", value |-> 300]}

\* One unit a transaction is enough to open, close and oversell a position
CaptureProfiles == {p \in UnitProfiles : p.units = 1}

InitCapture ==
    /\ \/ /\ \E f \in [1..MaxTxns -> Optional(TransactionCreateOf(Isins, CaptureProfiles))] :
                transactions = {StoredTransaction(id, f[id][1]) :
                                  id \in {k \in 1..MaxTxns : f[k] # None}}
          /\ position_values \in SUBSET StoredValues
          /\ other_assets = {}
          /\ user_settings = None
       \/ /\ \E d \in SnapshotPurchases : transactions = {StoredTransaction(1, d)}
          /\ position_values \in SUBSET SnapshotPositionValues
          /\ other_assets \in SUBSET AssetUniverse
          /\ user_settings \in Optional(ExchangeRates)
    /\ asset_snapshots = {}
    /\ last = Outcome("init", "ok", "", "", FALSE)
    /\ reply = ReplyOf("init", None, "ok", None)

CaptureSnapshot ==
    \E t \in Optional(CaptureTimes), now \in CaptureTimes : CreateSnapshot(t, now)

NextCapture ==
    \/ GetAllOtherAssetsWithInvestments
    \/ CaptureSnapshot

SpecCapture == InitCapture /\ [][NextCapture]_vars

(***************************************************************************)
(* SpecPure: the portfolio summary read again and again over the stores of *)
(* SpecCapture, between other reads and between snapshots.                 *)
(***************************************************************************)
NextPure ==
    \/ GetPortfolioSummary
    \/ CalculateHoldings
    \/ CaptureSnapshot

SpecPure == InitCapture /\ [][NextPure]_vars

(***************************************************************************)
(* SpecSummary: the summaries as a function of the snapshot table.  Any    *)
(* rows can be stored (the CSV import takes them as given), so it starts   *)
(* from every table of at most MaxSnapshotRows sample rows and applies the *)
(* summary under each date filter.                                         *)
(***************************************************************************)
SnapshotKinds ==
    {[asset_type |-> "investments", asset_detail |-> None, currency |-> "EUR",
      value |-> 0, exchange_rate |-> 2500, value_eur |-> 0],
     [asset_type |-> "cash_czk", asset_detail |-> Some("CSOB"), currency |-> "CZK",
      value |-> 2500, exchange_rate |-> 2500, value_eur |-> 100],
     [asset_type |-> "crypto", asset_detail |-> None, currency |-> "EUR",
      value |-> 300, exchange_rate |-> 2500, value_eur |-> 300]}

SnapshotTemplates == [kind : SnapshotKinds, snapshot_date : Timestamps]

StoredSnapshot(id, template) ==
    [id |-> id, snapshot_date |-> template.snapshot_date,
     asset_type |-> template.kind.asset_type,
     asset_detail |-> template.kind.asset_detail,
     currency |-> template.kind.currency, value |-> template.kind.value,
     exchange_rate |-> template.kind.exchange_rate,
     value_eur |-> template.kind.value_eur]

\* The bounds of a date filter: none, or the middle timestamp
FilterDates == {None, <<2>>}

InitSummary ==
    /\ \E f \in [1..MaxSnapshotRows -> Optional(SnapshotTemplates)] :
          asset_snapshots = {StoredSnapshot(id, f[id][1]) :
                               id \in {k \in 1..MaxSnapshotRows : f[k] # None}}
    /\ transactions = {}
    /\ position_values = {}
    /\ other_assets = {}
    /\ user_settings = None
    /\ last = Outcome("init", "ok", "", "", FALSE)
    /\ reply = ReplyOf("init", None, "ok", None)

QuerySummaries ==
    \E start_date \in FilterDates, end_date \in FilterDates :
        GetSnapshotSummaries(start_date, end_date)

NextSummary == QuerySummaries

SpecSummary == InitSummary /\ [][NextSummary]_vars

(***************************************************************************)
(* SpecImport: the two CSV imports from the empty database, over every     *)
(* file of at most MaxCsvRows sample rows.                                 *)
(***************************************************************************)
SnapshotCsvRows ==
    {[snapshot_date |-> <<1>>, asset_type |-> "crypto", asset_detail |-> None,
      currency |-> "eur", value |-> 300, exchange_rate |-> 2500, value_eur |-> 300],
     [snapshot_date |-> <<2>>, asset_type |-> "cash_czk", asset_detail |-> Some("CSOB"),
      currency |-> "CZK", value |-> 2500, exchange_rate |-> 2500, value_eur |-> 100],
     \* a negative value
     [snapshot_date |-> <<1>>, asset_type |-> "crypto", asset_detail |-> None,
      currency |-> "EUR", value |-> 0 - 1, exchange_rate |-> 2500, value_eur |-> 0],
     \* a timestamp that is no ISO 8601 text
     [snapshot_date |-> None, asset_type |-> "crypto", asset_detail |-> None,
      currency |-> "EUR", value |-> 300, exchange_rate |-> 2500, value_eur |-> 300]}

DegiroCsvRows ==
    {[Date |-> <<1>>, ISIN |-> "ie00b4l5y983", Quantity |-> 2, Price |-> 2, Fee |-> 0 - 1],
     [Date |-> <<2>>, ISIN |-> "IE00B4L5Y983", Quantity |-> 0 - 1, Price |-> 5, Fee |-> 0],
     \* a date after today: rejected by TransactionCreate
     [Date |-> <<3>>, ISIN |-> "US0378331005", Quantity |-> 1, Price |-> 2, Fee |-> 0],
     \* twelve characters that are no ISIN: rejected by TransactionCreate
     [Date |-> <<1>>, ISIN |-> "IE00B4L5Y98X", Quantity |-> 1, Price |-> 2, Fee |-> 0],
     \* a quantity of zero: rejected by the parser
     [Date |-> <<1>>, ISIN |-> "US0378331005", Quantity |-> 0, Price |-> 2, Fee |-> 0],
     \* a date that is not DD-MM-YYYY: rejected by the parser
     [Date |-> None, ISIN |-> "US0378331005", Quantity |-> 1, Price |-> 2, Fee |-> 0]}

\* The files of at most MaxCsvRows data rows
CsvFiles(rows) == UNION {[1..n -> rows] : n \in 0..MaxCsvRows}

ImportSnapshots ==
    /\ NextId(asset_snapshots) <= MaxSnapshotId
    /\ \E csv_content \in CsvFiles(SnapshotCsvRows), flush_fault \in 0..MaxCsvRows :
          ImportSnapshotsFromCsv(csv_content, flush_fault)

ImportDegiro ==
    /\ NextId(transactions) <= MaxTxns
    /\ \E csv_content \in CsvFiles(DegiroCsvRows) :
          DegiroImportCsvTransactions(csv_content)

NextImport ==
    \/ ImportSnapshots
    \/ ImportDegiro

SpecImport == Init /\ [][NextImport]_vars

(***************************************************************************)
(* Vocabulary of the claims: the figures of an instrument taken directly   *)
(* from the stored rows                                                    *)
(***************************************************************************)
RECURSIVE SumOf(_, _)
\* The sum of f[x] over the x of the finite set S
SumOf(f, S) ==
    IF S = {} THEN 0
    ELSE LET x == CHOOSE y \in S : TRUE
         IN  f[x] + SumOf(f, S \ {x})

RowsOf(db, isin, type) ==
    {t \in db : t.isin = isin /\ t.transaction_type = type}

StoredRows(db, isin) == {t \in db : t.isin = isin}

\* BUY units minus SELL units over the stored transactions of the instrument
StoredUnits(db, isin) ==
    SumOf([t \in db |-> t.units], RowsOf(db, isin, "BUY"))
        - SumOf([t \in db |-> t.units], RowsOf(db, isin, "SELL"))

HasPositionValue(pvs, isin) == \E pv \in pvs : pv.isin = isin

TransactionMutations ==
    {"create_transaction", "update_transaction", "delete_transaction"}

\* The instruments the last mutation touched
Affected == {last.isin, last.original_isin}

(***************************************************************************)
(* C1.  After create_transaction, update_transaction or delete_transaction *)
(* returns, an instrument affected by the mutation whose total_units (BUY  *)
(* units minus SELL units over the stored transactions) is exactly 0 has   *)
(* no PositionValue row.                                                   *)
(***************************************************************************)
C1_NoPositionValueAtZeroUnits ==
    (last.op \in TransactionMutations /\ last.result = "ok") =>
        \A i \in Affected :
            StoredUnits(transactions, i) = 0 => ~HasPositionValue(position_values, i)

(***************************************************************************)
(* C2.  If an instrument's total_units was exactly 0 immediately before    *)
(* update_transaction or delete_transaction and is greater than 0 after    *)
(* it, then no PositionValue row exists for that instrument when the       *)
(* operation returns.  Stated for the plainest case of the claim: the      *)
(* instrument had stored transactions before (a closed position) and no    *)
(* database error occurred during the cleanup.                             *)
(***************************************************************************)
C2_ReopenedPositionValueDeleted ==
    [][(/\ last'.op \in {"update_transaction", "delete_transaction"}
        /\ last'.result = "ok"
        /\ ~last'.cleanup_failed)
       => \A i \in Isins :
            (/\ StoredRows(transactions, i) # {}
             /\ StoredUnits(transactions, i) = 0
             /\ StoredUnits(transactions', i) > 0)
                => ~HasPositionValue(position_values', i)]_vars

(***************************************************************************)
(* C3.  If the position-value cleanup triggered by update_transaction or   *)
(* delete_transaction fails with any error, on the closed path or on the   *)
(* reopened path, the operation still returns successfully with the        *)
(* transaction store reflecting the mutation: the cleanup error is never   *)
(* propagated to the caller.                                               *)
(***************************************************************************)
C3_CleanupErrorNeverPropagated ==
    [][(/\ last'.op \in {"update_transaction", "delete_transaction"}
        /\ last'.cleanup_failed)
       => /\ last'.result = "ok"
          /\ last'.op = "delete_transaction" =>
                /\ transactions' \subseteq transactions
                /\ Cardinality(transactions') = Cardinality(transactions) - 1
          /\ last'.op = "update_transaction" =>
                {t.id : t \in transactions'} = {t.id : t \in transactions}]_vars

(***************************************************************************)
(* Vocabulary of the calculator claims                                     *)
(***************************************************************************)
\* Sum of price * units over the BUY (or SELL) rows of the instrument
StoredAmount(db, isin, type) ==
    SumOf([t \in db |-> t.price_per_unit * t.units], RowsOf(db, isin, type))

StoredFees(db, isin) == SumOf([t \in db |-> t.fee], StoredRows(db, isin))

Entries(list) == {list[k] : k \in DOMAIN list}

InList(list, isin) == \E e \in Entries(list) : e.isin = isin

\* q is absolute / denominator * 100, or exactly 0 when denominator <= 0
IsPercentage(q, absolute, denominator) ==
    IF denominator <= 0
    THEN q.num = 0
    ELSE q.den > 0 /\ q.num * denominator = absolute * 100 * q.den

CostBasisQueried == last.op = "calculate_cost_basis" /\ last.as_of_date = None

HoldingsQueried == last.op = "calculate_current_holdings_and_closed_positions"

C5_AbsentIffNoTransaction ==
    CostBasisQueried =>
        LET i == Upper(last.isin)
            r == last.returned[1]
        IN  /\ (r = None) <=> (StoredRows(transactions, i) = {})
            /\ (/\ StoredRows(transactions, i) # {}
                /\ StoredUnits(transactions, i) = 0)
               => /\ r # None
                  /\ r[1].total_units = 0
                  /\ r[1].transactions_count > 0

\* A cost basis was computed for an instrument whose units were all sold
C5_Witness ==
    /\ CostBasisQueried
    /\ RowsOf(transactions, Upper(last.isin), "BUY") # {}
    /\ StoredUnits(transactions, Upper(last.isin)) = 0
    /\ last.returned[1] # None

(***************************************************************************)
(* C6.  calculate_current_holdings_and_closed_positions lists an           *)
(* instrument of the transaction store in holdings iff its total_units > 0 *)
(* and in closed_positions iff its total_units = 0; no instrument is in    *)
(* both lists (an instrument without any transaction is in neither).       *)
(***************************************************************************)
C6_HoldingsIffPositiveUnits ==
    HoldingsQueried =>
        LET lists == last.returned[1]
        IN  \A i \in Isins :
              LET stored == StoredRows(transactions, i) # {}
                  units == StoredUnits(transactions, i)
              IN  /\ InList(lists.holdings, i) <=> (stored /\ units > 0)
                  /\ InList(lists.closed_positions, i) <=> (stored /\ units = 0)
                  /\ ~(InList(lists.holdings, i) /\ InList(lists.closed_positions, i))

\* The lists were computed for a store with a sold-out instrument
C6_Witness ==
    /\ HoldingsQueried
    /\ \E i \in Isins :
          /\ RowsOf(transactions, i, "BUY") # {}
          /\ RowsOf(transactions, i, "SELL") # {}
          /\ StoredUnits(transactions, i) = 0
          /\ InList(last.returned[1].closed_positions, i)

(***************************************************************************)
(* C7.  With more units sold than held, calculate_cost_basis returns the   *)
(* negative total_units (not clamped to 0) and                             *)
(* calculate_current_holdings_and_closed_positions lists the instrument in *)
(* neither holdings nor closed_positions.                                  *)
(***************************************************************************)
C7_OversoldIsNegativeAndUnlisted ==
    /\ (CostBasisQueried /\ StoredUnits(transactions, Upper(last.isin)) < 0) =>
          /\ last.returned[1] # None
          /\ last.returned[1][1].total_units
                 = StoredUnits(transactions, Upper(last.isin))
          /\ last.returned[1][1].total_units < 0
    /\ HoldingsQueried =>
          \A i \in Isins :
              StoredUnits(transactions, i) < 0 =>
                  /\ ~InList(last.returned[1].holdings, i)
                  /\ ~InList(last.returned[1].closed_positions, i)

\* A cost basis was computed for an instrument with a BUY and a larger SELL
C7_Witness ==
    /\ CostBasisQueried
    /\ RowsOf(transactions, Upper(last.isin), "BUY") # {}
    /\ StoredUnits(transactions, Upper(last.isin)) < 0

(***************************************************************************)
(* C8.  For a holding with a known current_value v:                        *)
(* absolute_pl_without_fees = v - (total_cost_without_fees -               *)
(* total_gains_without_fees), absolute_pl_with_fees = v - (that net cost + *)
(* total_fees), and each percentage is the absolute value divided by its   *)
(* denominator times 100, or exactly 0 when the denominator is <= 0.  For  *)
(* a holding without a known current_value, current_value and the four    *)
(* P/L fields are absent.                                                  *)
(***************************************************************************)
C8_HoldingProfitLoss ==
    HoldingsQueried =>
        \A h \in Entries(last.returned[1].holdings) :
            LET known == {pv \in position_values : pv.isin = h.isin}
                net == h.total_cost_without_fees - h.total_gains_without_fees
            IN  IF known # {}
                THEN LET v == (CHOOSE pv \in known : TRUE).current_value
                     IN  /\ h.current_value = Some(v)
                         /\ h.absolute_pl_without_fees = Some(v - net)
                         /\ h.absolute_pl_with_fees = Some(v - (net + h.total_fees))
                         /\ IsPercentage(h.percentage_pl_without_fees[1], v - net, net)
                         /\ IsPercentage(h.percentage_pl_with_fees[1],
                                         v - (net + h.total_fees), net + h.total_fees)
                ELSE /\ h.current_value = None
                     /\ h.absolute_pl_without_fees = None
                     /\ h.percentage_pl_without_fees = None
                     /\ h.absolute_pl_with_fees = None
                     /\ h.percentage_pl_with_fees = None

\* The lists hold a valued holding that sold for more than it cost, so that
\* a denominator is <= 0
C8_Witness ==
    /\ HoldingsQueried
    /\ \E h \in Entries(last.returned[1].holdings) :
          /\ h.current_value # None
          /\ h.total_gains_without_fees > 0
          /\ h.total_cost_without_fees - h.total_gains_without_fees <= 0

(***************************************************************************)
(* C9.  For every closed position, whether or not a PositionValue is       *)
(* stored for it, current_value is 0, absolute_pl_without_fees =           *)
(* total_gains_without_fees - total_cost_without_fees,                     *)
(* absolute_pl_with_fees = that minus total_fees, and the percentages are  *)
(* relative to total_cost_without_fees and to total_cost_without_fees +    *)
(* total_fees, or exactly 0 when that denominator is <= 0.                 *)
(***************************************************************************)
C9_ClosedProfitLoss ==
    HoldingsQueried =>
        \A c \in Entries(last.returned[1].closed_positions) :
            LET realized == c.total_gains_without_fees - c.total_cost_without_fees
            IN  /\ c.current_value = Some(0)
                /\ c.absolute_pl_without_fees = Some(realized)
                /\ c.absolute_pl_with_fees = Some(realized - c.total_fees)
                /\ IsPercentage(c.percentage_pl_without_fees[1], realized,
                                c.total_cost_without_fees)
                /\ IsPercentage(c.percentage_pl_with_fees[1],
                                realized - c.total_fees,
                                c.total_cost_without_fees + c.total_fees)

\* The lists hold a closed position that paid fees and has a PositionValue
C9_Witness ==
    /\ HoldingsQueried
    /\ \E c \in Entries(last.returned[1].closed_positions) :
          /\ HasPositionValue(position_values, c.isin)
          /\ c.total_fees > 0

(***************************************************************************)
(* C10.  get_portfolio_summary returns total_invested = sum of price *     *)
(* units over all BUY rows, total_withdrawn = the same over all SELL rows, *)
(* total_fees = the fees of all rows,                                      *)
(* total_current_portfolio_invested_value = sum of current_value over all  *)
(* stored PositionValue rows (0 without any), and total_profit_loss =      *)
(* that value + total_withdrawn - total_fees - total_invested.             *)
(***************************************************************************)
C10_PortfolioSummaryTotals ==
    last.op = "get_portfolio_summary" =>
        LET r == last.returned[1]
            invested == SumOf([t \in transactions |-> t.price_per_unit * t.units],
                              {t \in transactions : t.transaction_type = "BUY"})
            withdrawn == SumOf([t \in transactions |-> t.price_per_unit * t.units],
                               {t \in transactions : t.transaction_type = "SELL"})
            fees == SumOf([t \in transactions |-> t.fee], transactions)
            value == SumOf([pv \in position_values |-> pv.current_value],
                           position_values)
        IN  /\ r.total_invested = invested
            /\ r.total_withdrawn = withdrawn
            /\ r.total_fees = fees
            /\ r.total_current_portfolio_invested_value = value
            /\ r.total_profit_loss = value + withdrawn - fees - invested

\* A summary was computed over a BUY, a SELL with a fee and two PositionValues
C10_Witness ==
    /\ last.op = "get_portfolio_summary"
    /\ \E t \in transactions : t.transaction_type = "BUY"
    /\ \E t \in transactions : t.transaction_type = "SELL" /\ t.fee > 0
    /\ Cardinality(position_values) = 2

(***************************************************************************)
(* Vocabulary of the asset claims                                          *)
(***************************************************************************)
\* The elements of a list
Elements(list) == {list[i] : i \in 1..Len(list)}

\* The timestamp a create_snapshot call is to use: the given one, or the
\* clock
RequestedDate(args) ==
    IF args.snapshot_datetime # None THEN args.snapshot_datetime[1] ELSE args.now

\* The OtherAsset a snapshot row was taken from
CapturedAsset(row) ==
    [asset_type |-> row.asset_type, asset_detail |-> row.asset_detail,
     currency |-> row.currency, value |-> row.value]

\* asset_type, then asset_detail, strictly ascending
AssetBefore(a, b) ==
    \/ AssetTypeRank(a.asset_type) < AssetTypeRank(b.asset_type)
    \/ /\ a.asset_type = b.asset_type
       /\ AssetDetailRank(a.asset_detail) < AssetDetailRank(b.asset_detail)

\* The sum of current_value over the instruments that are open holdings
\* (total_units > 0) and have a PositionValue
OpenHoldingsValue(db, pvs) ==
    LET open == {pv \in pvs : StoredUnits(db, pv.isin) > 0}
    IN  SumOf([pv \in pvs |-> pv.current_value], open)

SnapshotCreated == reply.op = "create_snapshot" /\ reply.result = "ok"

(***************************************************************************)
(* C11: each create_snapshot call inserts exactly one row for the          *)
(* synthetic investments asset plus one row per stored OtherAsset, the     *)
(* investments row first and the stored assets after it by asset_type and  *)
(* then asset_detail ascending; all the inserted rows carry the timestamp  *)
(* of the call and one exchange_rate, and the returned metadata has        *)
(* total_assets_captured = the number of rows inserted and total_value_eur *)
(* = the sum of their value_eur.                                           *)
(***************************************************************************)
C11_SnapshotRowsAndMetadata ==
    [][\A t \in Optional(CaptureTimes), now \in CaptureTimes :
          CreateSnapshot(t, now) =>
              LET rows == reply'.returned[1].snapshots
                  metadata == reply'.returned[1].metadata
                  inserted == asset_snapshots' \ asset_snapshots
              IN  /\ reply'.result = "ok"
                  /\ asset_snapshots \subseteq asset_snapshots'
                  /\ inserted = Elements(rows)
                  /\ Cardinality(inserted) = 1 + Cardinality(other_assets)
                  /\ Len(rows) = Cardinality(inserted)
                  /\ rows[1].asset_type = "investments"
                  /\ {CapturedAsset(rows[i]) : i \in 2..Len(rows)} = other_assets
                  /\ \A i, j \in 2..Len(rows) :
                        i < j => AssetBefore(rows[i], rows[j])
                  /\ \A i \in 1..Len(rows) :
                        /\ rows[i].snapshot_date = RequestedDate(reply'.args)
                        /\ rows[i].exchange_rate = rows[1].exchange_rate
                  /\ metadata # None
                  /\ metadata[1].total_assets_captured = Cardinality(inserted)
                  /\ metadata[1].total_value_eur =
                        DecimalOf(Sum([i \in 1..Len(rows) |-> rows[i].value_eur]))]_vars

(***************************************************************************)
(* C12: stored AssetSnapshot rows are frozen.  A step that is no deletion  *)
(* of snapshots (a change of the exchange-rate setting, an OtherAsset,     *)
(* PositionValue or transaction write, a further create_snapshot call,     *)
(* also one with the same snapshot_date) keeps every stored row, with its  *)
(* exchange_rate, value and value_eur.                                     *)
(***************************************************************************)
C12_StoredSnapshotsAreFrozen ==
    [][DropSnapshots \/ \A s \in asset_snapshots : s \in asset_snapshots']_vars

\* A snapshot taken at the default rate is still stored, rate and value_eur
\* as captured, after a rate was stored and beside a second snapshot of the
\* same snapshot_date
C12_Witness ==
    /\ user_settings # None
    /\ \E s, o \in asset_snapshots :
          /\ s.currency = "CZK"
          /\ s.exchange_rate = DefaultExchangeRate
          /\ s.exchange_rate # user_settings[1]
          /\ o.id # s.id
          /\ o.asset_type = "investments"
          /\ o.snapshot_date = s.snapshot_date
          /\ o.id > s.id
    /\ Cardinality(SnapshotsTaken) = 2

(***************************************************************************)
(* C13: create_snapshot uses the stored exchange-rate setting as the rate, *)
(* or 25.00 when no setting is stored, and sets value_eur = value for an   *)
(* EUR asset and value_eur = value / exchange_rate for a CZK asset (with a *)
(* stored rate of 24.00 a CZK asset of 2400.00 is captured with            *)
(* exchange_rate 24.00 and value_eur 100.00).                              *)
(***************************************************************************)
C13_ExchangeRateAndValueEur ==
    reply.op = "create_snapshot" =>
        LET rows == reply.returned[1].snapshots
            rate == IF user_settings # None THEN user_settings[1]
                    ELSE DefaultExchangeRate
        IN  /\ reply.result = "ok"
            /\ \A i \in 1..Len(rows) :
                  /\ rows[i].exchange_rate = rate
                  /\ rows[i].currency = "EUR" => rows[i].value_eur = rows[i].value
                  /\ rows[i].currency = "CZK" =>
                        DecimalOf(rows[i].value_eur) = DecimalDivRate(rows[i].value, rate)

(***************************************************************************)
(* C14: the value of the synthetic investments row that                    *)
(* get_all_other_assets_with_investments produces and create_snapshot      *)
(* captures is the sum of current_value over the open holdings             *)
(* (total_units > 0) that have a PositionValue, 0 when there is none; the  *)
(* position values of closed positions, oversold instruments and           *)
(* instruments without transactions are not counted.                       *)
(***************************************************************************)
C14_InvestmentsRowIsOpenHoldingsValue ==
    /\ reply.op = "get_all_other_assets_with_investments" =>
          /\ reply.returned[1].assets[1].asset_type = "investments"
          /\ reply.returned[1].assets[1].value =
                OpenHoldingsValue(transactions, position_values)
    /\ SnapshotCreated =>
          /\ reply.returned[1].snapshots[1].asset_type = "investments"
          /\ reply.returned[1].snapshots[1].value =
                OpenHoldingsValue(transactions, position_values)
          /\ reply.returned[1].snapshots[1] \in asset_snapshots

\* A snapshot over an open holding with a value beside a valued instrument
\* that has transactions and no units left
C14_Witness ==
    /\ SnapshotCreated
    /\ OpenHoldingsValue(transactions, position_values) > 0
    /\ \E pv \in position_values :
          /\ StoredRows(transactions, pv.isin) # {}
          /\ StoredUnits(transactions, pv.isin) <= 0
          /\ pv.current_value > 0

C16_DeleteByDateRemovesThatDateOnly ==
    [][\A t \in CaptureTimes :
          DeleteSnapshotsByDate(t) =>
              LET found == {s \in asset_snapshots : s.snapshot_date = t}
              IN  IF found = {}
                  THEN /\ reply'.result = "error"
                       /\ asset_snapshots' = asset_snapshots
                  ELSE /\ reply'.result = "ok"
                       /\ reply'.returned = Some(Cardinality(found))
                       /\ asset_snapshots' = asset_snapshots \ found]_vars

\* A deletion that removed the several rows of one date and left the rows of
\* an earlier date
C16_Witness ==
    /\ reply.op = "delete_snapshots_by_date"
    /\ reply.result = "ok"
    /\ reply.returned[1] >= 2
    /\ asset_snapshots # {}
    /\ \A s \in asset_snapshots : s.snapshot_date < reply.args

(***************************************************************************)
(* Vocabulary of the summary claims: the figures of a date taken directly  *)
(* from the stored rows                                                    *)
(***************************************************************************)
SummariesReturned == reply.op = "get_snapshot_summaries"

\* The stored rows within the bounds of the query, both bounds included
RowsInRange ==
    {s \in asset_snapshots :
        /\ reply.args.start_date # None => s.snapshot_date >= reply.args.start_date[1]
        /\ reply.args.end_date # None => s.snapshot_date <= reply.args.end_date[1]}

RowsOfDate(snapshot_date) == {s \in asset_snapshots : s.snapshot_date = snapshot_date}

\* The sum of value_eur over the stored rows of a date
TotalValueEur(snapshot_date) ==
    SumOf([s \in asset_snapshots |-> s.value_eur], RowsOfDate(snapshot_date))

(***************************************************************************)
(* C19: in get_snapshot_summaries the baseline is the oldest date of the   *)
(* filtered, returned set, not the oldest stored date.  For every returned *)
(* date absolute_change_from_oldest = total_value_eur(date) -              *)
(* total_value_eur(baseline) and percentage_change_from_oldest = that /    *)
(* total_value_eur(baseline) * 100, or exactly 0 when                      *)
(* total_value_eur(baseline) <= 0; the baseline date reports 0 and 0.      *)
(***************************************************************************)
C19_ChangesAgainstOldestReturned ==
    (SummariesReturned /\ RowsInRange # {}) =>
        LET summaries == reply.returned[1].summaries
            baseline == CHOOSE d \in {s.snapshot_date : s \in RowsInRange} :
                            \A s \in RowsInRange : d <= s.snapshot_date
        IN  /\ Len(summaries) > 0
            /\ summaries[Len(summaries)].snapshot_date = baseline
            /\ \A i \in 1..Len(summaries) :
                  LET absolute == TotalValueEur(summaries[i].snapshot_date)
                                      - TotalValueEur(baseline)
                  IN  /\ summaries[i].absolute_change_from_oldest = absolute
                      /\ IsPercentage(summaries[i].percentage_change_from_oldest,
                                      absolute, TotalValueEur(baseline))
                      /\ summaries[i].snapshot_date = baseline =>
                            /\ summaries[i].absolute_change_from_oldest = 0
                            /\ summaries[i].percentage_change_from_oldest.num = 0

\* A query from a start date on over a table with an older date: the
\* baseline is the start date and the newer date has changed against it
C19_Witness ==
    /\ SummariesReturned
    /\ reply.args.start_date # None
    /\ \E s \in asset_snapshots : s.snapshot_date < reply.args.start_date[1]
    /\ Len(reply.returned[1].summaries) = 2
    /\ reply.returned[1].summaries[2].total_value_eur > 0
    /\ reply.returned[1].summaries[1].percentage_change_from_oldest.num # 0

(***************************************************************************)
(* C20: get_snapshot_summaries returns one summary per distinct            *)
(* snapshot_date among the rows that pass the optional inclusive           *)
(* start/end date filter, newest first, with total_value_eur = the sum of  *)
(* value_eur of the rows of that date, by_currency = the sum of the native *)
(* value per currency in ascending order of the currency code, and         *)
(* by_asset_type = the sum of value_eur per asset_type in ascending order  *)
(* of the type.                                                            *)
(***************************************************************************)
C20_OneSummaryPerDate ==
    SummariesReturned =>
        LET summaries == reply.returned[1].summaries
            dates == {s.snapshot_date : s \in RowsInRange}
        IN  /\ Len(summaries) = Cardinality(dates)
            /\ {summaries[i].snapshot_date : i \in 1..Len(summaries)} = dates
            /\ \A i, j \in 1..Len(summaries) :
                  i < j => summaries[i].snapshot_date > summaries[j].snapshot_date
            /\ \A i \in 1..Len(summaries) :
                  LET rows == RowsOfDate(summaries[i].snapshot_date)
                      by_currency == summaries[i].by_currency
                      by_asset_type == summaries[i].by_asset_type
                  IN  /\ summaries[i].total_value_eur
                            = TotalValueEur(summaries[i].snapshot_date)
                      /\ {by_currency[k].currency : k \in 1..Len(by_currency)}
                            = {s.currency : s \in rows}
                      /\ \A k, l \in 1..Len(by_currency) :
                            k < l => CurrencyRank(by_currency[k].currency)
                                        < CurrencyRank(by_currency[l].currency)
                      /\ \A k \in 1..Len(by_currency) :
                            by_currency[k].total_value =
                                SumOf([s \in asset_snapshots |-> s.value],
                                      {s \in rows : s.currency = by_currency[k].currency})
                      /\ {by_asset_type[k].asset_type : k \in 1..Len(by_asset_type)}
                            = {s.asset_type : s \in rows}
                      /\ \A k, l \in 1..Len(by_asset_type) :
                            k < l => AssetTypeRank(by_asset_type[k].asset_type)
                                        < AssetTypeRank(by_asset_type[l].asset_type)
                      /\ \A k \in 1..Len(by_asset_type) :
                            by_asset_type[k].total_value_eur =
                                SumOf([s \in asset_snapshots |-> s.value_eur],
                                      {s \in rows :
                                          s.asset_type = by_asset_type[k].asset_type})

\* Two dates returned under a start date that one of them equals, one of
\* them with rows in two currencies and of two asset types
C20_Witness ==
    /\ SummariesReturned
    /\ reply.args.start_date # None
    /\ Len(reply.returned[1].summaries) = 2
    /\ reply.returned[1].summaries[2].snapshot_date = reply.args.start_date[1]
    /\ \E i \in 1..2 :
          /\ Len(reply.returned[1].summaries[i].by_currency) = 2
          /\ Len(reply.returned[1].summaries[i].by_asset_type) = 2

(***************************************************************************)
(* Vocabulary of the import claims                                         *)
(***************************************************************************)
\* The data rows of a snapshot file that parse and that the database takes
SnapshotRowsGood(csv_content, flush_fault) ==
    {i \in 1..Len(csv_content) :
        /\ ~parse_snapshot_row(csv_content[i], i).raised
        /\ i # flush_fault}

\* The data rows of a DEGIRO file that parse and pass TransactionCreate
DegiroRowsGood(csv_content) ==
    {i \in 1..Len(csv_content) :
        /\ ~parse_degiro_row(csv_content[i], i).raised
        /\ ValidateTransactionCreate(parse_degiro_row(csv_content[i], i)).valid}

\* The row numbers an import reports in a list of results or errors
RowsReported(list) == {list[i].row : i \in 1..Len(list)}

(***************************************************************************)
(* C17: in import_snapshots_from_csv the failure of one row, at parsing,   *)
(* validation or insertion, does not abort the batch: every other row is   *)
(* still processed and stored, the failed row is recorded in errors, and   *)
(* at the end the batch is committed if at least one row succeeded and     *)
(* entirely rolled back (no row stored) if none succeeded.                 *)
(***************************************************************************)
C17_SnapshotImportIsolatesRowFailures ==
    [][\A csv_content \in CsvFiles(SnapshotCsvRows), flush_fault \in 0..MaxCsvRows :
          ImportSnapshotsFromCsv(csv_content, flush_fault) =>
              LET good == SnapshotRowsGood(csv_content, flush_fault)
                  bad == (1..Len(csv_content)) \ good
                  results == reply'.returned[1]
              IN  /\ reply'.result = "ok"
                  /\ results.successful = Cardinality(good)
                  /\ results.failed = Cardinality(bad)
                  /\ RowsReported(results.results) = good
                  /\ RowsReported(results.errors) = bad
                  /\ asset_snapshots \subseteq asset_snapshots'
                  /\ Cardinality(asset_snapshots' \ asset_snapshots)
                        = Cardinality(good)]_vars

(***************************************************************************)
(* C18: in degiro_import_csv_transactions a single bad row, unparseable or *)
(* failing the transaction validation, does not abort the batch: every     *)
(* other valid row is stored as a transaction, the bad row is reported in  *)
(* errors, and the result has successful + failed = total_rows,            *)
(* len(results) = successful and len(errors) = failed.                     *)
(***************************************************************************)
C18_DegiroImportIsolatesBadRows ==
    [][\A csv_content \in CsvFiles(DegiroCsvRows) :
          DegiroImportCsvTransactions(csv_content) =>
              LET good == DegiroRowsGood(csv_content)
                  bad == (1..Len(csv_content)) \ good
                  results == reply'.returned[1]
              IN  /\ reply'.result = "ok"
                  /\ transactions \subseteq transactions'
                  /\ Cardinality(transactions' \ transactions) = Cardinality(good)
                  /\ RowsReported(results.results) = good
                  /\ RowsReported(results.errors) = bad
                  /\ results.successful + results.failed = results.total_rows
                  /\ Len(results.results) = results.successful
                  /\ Len(results.errors) = results.failed]_vars

(***************************************************************************)
(* C21: avg_monthly_increment of get_snapshot_summaries is exactly 0 when  *)
(* the returned set has 0 or 1 snapshot dates or when the newest and the   *)
(* oldest date are 0 whole days apart; otherwise it is (newest_total -     *)
(* oldest_total) / days_between * 30 rounded to 2 decimal places (the      *)
(* amount of whole cents nearest to the quotient), and it is negative when *)
(* the total decreased.                                                    *)
(***************************************************************************)
C21_AvgMonthlyIncrement ==
    SummariesReturned =>
        LET dates == {s.snapshot_date : s \in RowsInRange}
            avg == reply.returned[1].avg_monthly_increment
        IN  IF Cardinality(dates) <= 1
            THEN avg = 0
            ELSE LET newest == CHOOSE d \in dates : \A o \in dates : o <= d
                     oldest == CHOOSE d \in dates : \A o \in dates : d <= o
                     days == CHOOSE n \in 0..(newest - oldest) :
                                 /\ n * TicksPerDay <= newest - oldest
                                 /\ (n + 1) * TicksPerDay > newest - oldest
                     change == TotalValueEur(newest) - TotalValueEur(oldest)
                 IN  IF days = 0
                     THEN avg = 0
                     ELSE /\ 2 * Abs(avg * days - change * 30) <= days
                          /\ change < 0 => avg < 0
                          /\ change > 0 => avg > 0

\* A total that decreased over several days, the quotient not a whole
\* number of cents
C21_Witness ==
    /\ SummariesReturned
    /\ Len(reply.returned[1].summaries) >= 2
    /\ reply.returned[1].avg_monthly_increment < 0
    /\ LET summaries == reply.returned[1].summaries
           span == summaries[1].snapshot_date - summaries[Len(summaries)].snapshot_date
       IN  /\ span >= 2 * TicksPerDay
           /\ \A n \in 1..span :
                 reply.returned[1].avg_monthly_increment * n
                     # (summaries[1].total_value_eur
                          - summaries[Len(summaries)].total_value_eur) * 30

(***************************************************************************)
(* C22: with an as_of_date cutoff, calculate_cost_basis counts exactly the *)
(* instrument's transactions dated on or before the cutoff and ignores the *)
(* later ones: its result is the cost basis of the store with the later    *)
(* transactions removed, and is absent when no transaction of the          *)
(* instrument is on or before the cutoff.                                  *)
(***************************************************************************)
C22_CutoffCountsTransactionsUpToDate ==
    (last.op = "calculate_cost_basis" /\ last.as_of_date # None) =>
        LET i == Upper(last.isin)
            kept == {t \in transactions : t.date <= last.as_of_date[1]}
            r == last.returned[1]
        IN  /\ (r = None) <=> (StoredRows(kept, i) = {})
            /\ r = calculate_cost_basis(kept, last.isin, None)
            /\ r # None =>
                  /\ r[1].total_units = StoredUnits(kept, i)
                  /\ r[1].total_cost_without_fees = StoredAmount(kept, i, "BUY")
                  /\ r[1].total_gains_without_fees = StoredAmount(kept, i, "SELL")
                  /\ r[1].total_fees = StoredFees(kept, i)
                  /\ r[1].transactions_count = Cardinality(StoredRows(kept, i))

\* A cost basis as of a date for an instrument with a transaction on the
\* date and one after it
C22_Witness ==
    /\ last.op = "calculate_cost_basis"
    /\ last.as_of_date # None
    /\ last.returned[1] # None
    /\ \E t \in StoredRows(transactions, Upper(last.isin)) :
          t.date = last.as_of_date[1]
    /\ \E t \in StoredRows(transactions, Upper(last.isin)) :
          t.date > last.as_of_date[1] /\ t.fee > 0

(***************************************************************************)
(* C23: after cleanup_orphaned_position_values returns without errors,     *)
(* every remaining PositionValue belongs to an instrument that has at      *)
(* least one transaction and total_units # 0, every PositionValue of an    *)
(* instrument with total_units > 0 is kept with its value unchanged, and   *)
(* the returned stats have checked = the number of PositionValue rows      *)
(* before the call and deleted = the length of deleted_isins.              *)
(***************************************************************************)
C23_OrphanCleanupLeavesLivePositions ==
    [][\A faults \in SUBSET Isins :
          (/\ CleanupOrphanedPositionValues(faults)
           /\ last'.returned[1].errors = << >>) =>
              LET stats == last'.returned[1]
              IN  /\ \A pv \in position_values' :
                        /\ StoredRows(transactions, pv.isin) # {}
                        /\ StoredUnits(transactions, pv.isin) # 0
                  /\ position_values' \subseteq position_values
                  /\ \A pv \in position_values :
                        StoredUnits(transactions, pv.isin) > 0
                            => pv \in position_values'
                  /\ stats.checked = Cardinality(position_values)
                  /\ stats.deleted = Len(stats.deleted_isins)
                  /\ Elements(stats.deleted_isins)
                        = {pv.isin : pv \in position_values \ position_values'}]_vars

\* A cleanup without errors that removed the value of an instrument without
\* units and kept the value of an open position
C23_Witness ==
    /\ last.op = "cleanup_orphaned_position_values"
    /\ last.returned[1].errors = << >>
    /\ last.returned[1].checked = 2
    /\ last.returned[1].deleted = 1
    /\ \E pv \in position_values : StoredUnits(transactions, pv.isin) > 0

C25_OnePositionValuePerInstrument ==
    [][/\ \A p, q \in position_values' : Upper(p.isin) = Upper(q.isin) => p = q
       /\ \A d \in PositionValueCreateInputs :
             UpsertPositionValue(d) =>
                 LET others(pvs) == {pv \in pvs : Upper(pv.isin) # Upper(d.isin)}
                     own(pvs) == {pv \in pvs : Upper(pv.isin) = Upper(d.isin)}
                 IN  /\ others(position_values') = others(position_values)
                     /\ own(position_values')
                           = {[isin |-> Upper(d.isin),
                               current_value |-> d.current_value]}
                     /\ Cardinality(position_values')
                           = Cardinality(position_values)
                               + (IF own(position_values) = {} THEN 1 ELSE 0)]_vars

\* An upsert with both instruments valued: its code is stored once, beside
\* the row of the other instrument
C25_Witness ==
    /\ last.op = "upsert_position_value"
    /\ Cardinality(position_values) = 2
    /\ \E pv \in position_values :
          /\ pv.isin = last.isin
          /\ pv.current_value = 7
    /\ \E pv \in position_values :
          /\ pv.isin # last.isin
          /\ pv.current_value = 7

(***************************************************************************)
(* schemas/other_asset.py: the request body of POST /other-assets.  A      *)
(* request is [asset_type, asset_detail, currency, value] as it was sent;  *)
(* OtherAssetCreate is the validated body, or None where pydantic raises   *)
(* ValidationError and the endpoint answers 422 before the service runs.   *)
(***************************************************************************)
AssetTypeValues == {AssetTypeOrder[i] : i \in DOMAIN AssetTypeOrder}
CurrencyValues == {CurrencyOrder[i] : i \in DOMAIN CurrencyOrder}
VALID_ACCOUNT_NAMES == {AccountOrder[i] : i \in DOMAIN AccountOrder}
CashTypes == {"cash_eur", "cash_czk"}

validate_not_investments(v) == v # "investments"

validate_asset_detail_and_currency_AnyCurrency(asset) ==
    IF asset.asset_type \in CashTypes
    THEN /\ ~(asset.asset_detail = None \/ asset.asset_detail[1] = "")
         /\ asset.asset_detail[1] \in VALID_ACCOUNT_NAMES
    ELSE asset.asset_detail = None

validate_asset_detail_and_currency(asset) ==
    IF asset.asset_type \in CashTypes
    THEN /\ ~(asset.asset_detail = None \/ asset.asset_detail[1] = "")
         /\ asset.asset_detail[1] \in VALID_ACCOUNT_NAMES
         /\ LET expected_currency ==
                    IF asset.asset_type = "cash_eur" THEN "EUR" ELSE "CZK"
            IN  asset.currency = expected_currency
    ELSE asset.asset_detail = None

OtherAssetCreate(request) ==
    IF /\ request.asset_type \in AssetTypeValues
       /\ request.currency \in CurrencyValues
       /\ request.value >= 0
       /\ validate_not_investments(request.asset_type)
       /\ validate_asset_detail_and_currency(request)
    THEN Some(request)
    ELSE None

\* POST /other-assets: the body is validated, and only a valid one reaches
\* upsert_other_asset
PostOtherAsset(request) ==
    \E asset \in {OtherAssetCreate(request)} :
        IF asset = None
        THEN /\ reply' = ReplyOf("upsert_other_asset", request, "rejected", None)
             /\ UNCHANGED <<other_assets, user_settings, asset_snapshots>>
             /\ UNCHANGED portfolio_vars
        ELSE UpsertOtherAsset(asset[1])

(***************************************************************************)
(* SpecAssets: the OtherAsset table under the requests of its endpoints,   *)
(* well-formed or not, with snapshots taken in between.                    *)
(***************************************************************************)
RequestedTypes == {"investments", "crypto", "cash_eur", "cash_czk"}
RequestedDetails == {None, Some(""), Some("CSOB"), Some("InvalidBank")}


\* Every type, account and currency at one value, and one body that keeps
\* the rules of the table with a value below zero
AssetRequests ==
    [asset_type : RequestedTypes, asset_detail : RequestedDetails,
     currency : CurrencyValues, value : {110}]
        \cup {[asset_type |-> "crypto", asset_detail |-> None,
                currency |-> "EUR", value |-> 0 - 1]}

PostAsset == \E request \in AssetRequests : PostOtherAsset(request)

RemoveAsset ==
    \E asset_type \in RequestedTypes, asset_detail \in {None, Some("CSOB")} :
        DeleteOtherAsset(asset_type, asset_detail)

\* A snapshot at the time of the call
SnapshotAssets ==
    /\ NextId(asset_snapshots) <= MaxSnapshotId
    /\ CreateSnapshot(None, Now)

NextAssets ==
    \/ PostAsset
    \/ RemoveAsset
    \/ SnapshotAssets

SpecAssets == Init /\ [][NextAssets]_vars

\* What the rules of the table say of a row or of a request
AssetRulesHold(a) ==
    /\ a.asset_type # "investments"
    /\ a.asset_type \in CashTypes =>
          /\ a.asset_detail # None
          /\ a.asset_detail[1] \in {"CSOB", "RAIF", "Revolut", "Wise", "Degiro"}
          /\ a.asset_type = "cash_eur" => a.currency = "EUR"
          /\ a.asset_type = "cash_czk" => a.currency = "CZK"
    /\ a.asset_type \notin CashTypes => a.asset_detail = None

\* C26: after any sequence of upserts, deletions and snapshots every stored
\* OtherAsset is not of type investments, a cash asset has an account of the
\* whitelist and the currency of its type, a non-cash asset has no
\* asset_detail, and there is at most one row per (asset_type, asset_detail);
\* an upsert whose body breaks these rules is rejected and leaves the store
\* as it was.
C26_OtherAssetsAreWellFormed ==
    [][/\ \A a \in other_assets' : AssetRulesHold(a)
       /\ \A a, b \in other_assets' :
             (a.asset_type = b.asset_type /\ a.asset_detail = b.asset_detail) => a = b
       /\ (reply'.op = "upsert_other_asset" /\ ~AssetRulesHold(reply'.args)) =>
             /\ reply'.result = "rejected"
             /\ other_assets' = other_assets]_vars

\* A rejected upsert over a table that holds a cash row and a non-cash row,
\* after a snapshot was taken
C26_Witness ==
    /\ reply.op = "upsert_other_asset"
    /\ reply.result = "rejected"
    /\ ~AssetRulesHold(reply.args)
    /\ \E a, b \in other_assets :
          a.asset_type \in CashTypes /\ b.asset_type \notin CashTypes
    /\ asset_snapshots # {}

(***************************************************************************)
(* SpecRates: snapshots taken under the stored or the default rate, rate   *)
(* changes, and CSV imports of rows that name their own exchange_rate,     *)
(* with the summaries read in between.                                     *)
(***************************************************************************)
RateCsvRows ==
    {[snapshot_date |-> <<1>>, asset_type |-> "crypto", asset_detail |-> None,
      currency |-> "EUR", value |-> 300, exchange_rate |-> 2500, value_eur |-> 300],
     [snapshot_date |-> <<1>>, asset_type |-> "cash_czk", asset_detail |-> Some("CSOB"),
      currency |-> "CZK", value |-> 2400, exchange_rate |-> 2400, value_eur |-> 100]}

ImportRates ==
    /\ NextId(asset_snapshots) <= MaxSnapshotId
    /\ \E csv_content \in CsvFiles(RateCsvRows) :
          ImportSnapshotsFromCsv(csv_content, 0)

NextRates ==
    \/ TakeSnapshot
    \/ ExchangeRateWrite
    \/ ImportRates
    \/ QuerySummaries

SpecRates == Init /\ [][NextRates]_vars

\* C27: all AssetSnapshot rows of one snapshot_date carry the same
\* exchange_rate, and the exchange_rate_used that get_snapshot_summaries
\* reports for a date is the exchange_rate of every stored row of that date,
\* after any sequence of snapshots, rate changes and CSV imports.
C27_OneExchangeRatePerSnapshotDate ==
    /\ \A s, t \in asset_snapshots :
          s.snapshot_date = t.snapshot_date => s.exchange_rate = t.exchange_rate
    /\ SummariesReturned =>
          \A i \in 1..Len(reply.returned[1].summaries) :
              \A s \in RowsOfDate(reply.returned[1].summaries[i].snapshot_date) :
                  s.exchange_rate = reply.returned[1].summaries[i].exchange_rate_used

(***************************************************************************)
(* SpecMoves: update_transaction and delete_transaction over the stores    *)
(* that hold up to one transaction more than the writes of Spec build up,  *)
(* each of one unit, beside any of the stored values.                      *)
(***************************************************************************)
MoveIds == 1..(MaxTxns + 1)

InitMoves ==
    /\ \E f \in [MoveIds -> Optional(TransactionCreateOf(Isins, CaptureProfiles))] :
          transactions = {StoredTransaction(id, f[id][1]) :
                            id \in {k \in MoveIds : f[k] # None}}
    /\ position_values \in SUBSET StoredValues
    /\ last = Outcome("init", "ok", "", "", FALSE)
    /\ InitAssets

\* An update that leaves the fields alone, or names the instrument
MoveTransaction ==
    \E id \in MoveIds, i \in Optional(Isins), f \in Faults :
        update_transaction(id, [NoUpdate EXCEPT !.isin = i], f)

RemoveTransaction ==
    \E id \in MoveIds, f \in Faults : delete_transaction(id, f)

NextMoves ==
    \/ MoveTransaction
    \/ RemoveTransaction

SpecMoves == InitMoves /\ [][NextMoves]_vars

\* C28: update_transaction and delete_transaction delete the PositionValue
\* of an instrument only if its total_units is exactly 0 after the
\* operation, or its own total_units was 0 before the operation and is
\* greater than 0 after it; every other PositionValue is left as it was.  So
\* the value of an instrument with units > 0 before and after a transaction
\* is moved onto it is kept.
C28_PositionValueDeletedOnlyWhenClosedOrReopened ==
    [][last'.op \in {"update_transaction", "delete_transaction"} =>
          /\ position_values' \subseteq position_values
          /\ \A pv \in position_values \ position_values' :
                \/ StoredUnits(transactions', pv.isin) = 0
                \/ /\ StoredUnits(transactions, pv.isin) = 0
                   /\ StoredUnits(transactions', pv.isin) > 0]_vars

\* C29: when delete_transaction, or an update_transaction that changes the
\* instrument code, leaves an instrument without any stored transaction, no
\* PositionValue row of that instrument remains once the operation has
\* returned (here: with no error met in the cleanup).
C29_NoPositionValueWithoutTransactions ==
    (/\ \/ last.op = "delete_transaction"
        \/ last.op = "update_transaction" /\ last.isin # last.original_isin
     /\ last.result = "ok"
     /\ ~last.cleanup_failed
     /\ StoredRows(transactions, last.original_isin) = {}) =>
        ~\E pv \in position_values : pv.isin = last.original_isin

(***************************************************************************)
(* SpecLedger: the writes of Spec with the portfolio summary read in       *)
(* between.                                                                *)
(***************************************************************************)
\* The update and the delete with a database that answers every query
LedgerUpdate ==
    \E id \in 1..MaxTxns, u \in TransactionUpdateInputs :
        update_transaction(id, u, "none")

LedgerDelete == \E id \in 1..MaxTxns : delete_transaction(id, "none")

NextLedger ==
    \/ CreateTransaction
    \/ LedgerUpdate
    \/ LedgerDelete
    \/ UpsertPV
    \/ GetPortfolioSummary

SpecLedger == Init /\ [][NextLedger]_vars

\* C30: after any sequence of transaction creates, updates and deletes and
\* PositionValue upserts, the total_current_portfolio_invested_value that
\* get_portfolio_summary returns is the sum of current_value over the
\* entries of its holdings list, the amount recorded as the investments
\* value.
C30_InvestedValueIsSumOverHoldings ==
    last.op = "get_portfolio_summary" =>
        LET summary == last.returned[1]
            holdings == summary.holdings
        IN  /\ summary.total_current_portfolio_invested_value =
                  Sum([i \in 1..Len(holdings) |->
                          IF holdings[i].current_value = None
                          THEN 0 ELSE holdings[i].current_value[1]])
            /\ summary.total_current_portfolio_invested_value =
                  InvestmentsValue(summary)

====
